---- MODULE Spec2Model ----
(***************************************************************************)
(* A model of gitcrypt.js: the key-file codec (src/key.ts), the counter-   *)
(* mode stream cipher and its file API (src/crypto.ts, src/index.ts) and   *)
(* the command dispatcher (src/gitCrypt.ts).                               *)
(*                                                                         *)
(* Octets are the integers 0..255 and buffers are sequences of octets.     *)
(* JavaScript's 0-based buffer offsets are kept: the octet at offset o of  *)
(* a buffer b is b[o + 1].  Every 32-bit quantity of the model is below    *)
(* 2^31, where the unsigned value the code computes is the plain integer.  *)
(***************************************************************************)
EXTENDS Integers, Sequences, FiniteSets, TLC

VARIABLES
    kf,        \* the KeyFile object under construction: keyName, entries
    file,      \* the octets of the key file on disk, or NoFile
    fileInfo,  \* how `file` was made: the octets stored and the change made to them
    loaded,    \* the KeyFile object that load operations fill
    obs,       \* the last key-file operation: its arguments, result, and state before it
    disk,      \* the files of encryptFile / decryptFile: path -> octets, or NoFile
    meta,      \* per encrypted file: the key and nonce it was made with
    job,       \* the processStream call in progress: streams, encryptor, promise
    proc,      \* a run of the command-line program: argv, standard streams, exit
    nameCall,  \* a call of validateKeyName: its argument and its result
    ctr,       \* an AesCtrEncryptor / AesCtrDecryptor pair and the octets put through them
    repo,      \* the repository a lifecycle command runs in: files, configuration, status
    run,       \* the last lifecycle command: arguments, outcome, what it invoked in order
    ls,        \* a getEncryptedFiles call: the index, the attributes, what it returned
    cop        \* a Coprocess object, its child process and the pipes between them

keyVars == <<kf, file, fileInfo, loaded, obs>>

streamVars == <<disk, meta, job>>

vars ==
    <<kf, file, fileInfo, loaded, obs, disk, meta, job, proc, nameCall, ctr, repo, run, ls, cop>>

\* What the actions of each part leave alone.
outsideKey == <<streamVars, proc, nameCall, ctr, repo, run, ls, cop>>

outsideStream == <<keyVars, proc, nameCall, ctr, repo, run, ls, cop>>

outsideMain == <<keyVars, streamVars, nameCall, ctr, repo, run, ls, cop>>

outsideName == <<keyVars, streamVars, proc, ctr, repo, run, ls, cop>>

outsideCtr == <<keyVars, streamVars, proc, nameCall, repo, run, ls, cop>>

outsideRepo == <<keyVars, streamVars, proc, nameCall, ctr, ls, cop>>

outsideLs == <<keyVars, streamVars, proc, nameCall, ctr, repo, run, cop>>

outsideCop == <<keyVars, streamVars, proc, nameCall, ctr, repo, run, ls>>

(***************************************************************************)
(* Bounds of the model.                                                    *)
(***************************************************************************)
MaxEntries == 2

(***************************************************************************)
(* Program constants.                                                      *)
(***************************************************************************)
AES_KEY_LEN == 32
HMAC_KEY_LEN == 64
FORMAT_VERSION == 2
KEY_NAME_MAX_LEN == 128
MAX_FIELD_LEN == 1048576
HeaderField_END == 0
HeaderField_KEY_NAME == 1
KeyField_END == 0
KeyField_VERSION == 1
KeyField_AES_KEY == 3
KeyField_HMAC_KEY == 5

\* Buffer.from('\0GITCRYPTKEY', 'utf8')
KeyFileMagic == <<0, 71, 73, 84, 67, 82, 89, 80, 84, 75, 69, 89>>

(***************************************************************************)
(* Octet helpers.                                                          *)
(***************************************************************************)
Min(a, b) == IF a < b THEN a ELSE b

\* buffer.slice(start, end) for 0 <= start <= end <= length
Slice(buffer, start, end) == SubSeq(buffer, start + 1, end)

\* new Uint8Array(n): n zero octets
Zeros(n) == [i \in 1..n |-> 0]

\* A plausible slip: the four octets read in little-endian order.
loadBe32LittleEndian(buffer, offset) ==
    buffer[offset + 4] * 16777216 + buffer[offset + 3] * 65536
        + buffer[offset + 2] * 256 + buffer[offset + 1]

\* loadBe32(buffer, offset): the big-endian unsigned value of four octets
loadBe32(buffer, offset) ==
    buffer[offset + 1] * 16777216 + buffer[offset + 2] * 65536
        + buffer[offset + 3] * 256 + buffer[offset + 4]

\* storeBe32 into a fresh 4-octet buffer
storeBe32(value) ==
    << (value \div 16777216) % 256, (value \div 65536) % 256,
       (value \div 256) % 256, value % 256 >>

\* Buffer.from(str, 'utf8'): a string is its sequence of code points (< 2048 here)
RECURSIVE Utf8EncodeRange(_, _, _)
Utf8EncodeRange(str, lo, hi) ==
    IF lo > hi THEN <<>>
    ELSE IF lo = hi
    THEN LET cp == str[lo] IN
         IF cp < 128 THEN <<cp>> ELSE <<192 + (cp \div 64), 128 + (cp % 64)>>
    ELSE LET mid == (lo + hi) \div 2 IN
         Utf8EncodeRange(str, lo, mid) \o Utf8EncodeRange(str, mid + 1, hi)

Utf8Encode(str) == Utf8EncodeRange(str, 1, Len(str))

\* buffer.toString('utf8'): one- and two-octet sequences; an octet that starts no
\* valid sequence decodes to U+FFFD
RECURSIVE Utf8Decode(_)
Utf8Decode(bytes) ==
    IF bytes = <<>> THEN <<>>
    ELSE LET b == Head(bytes) IN
         IF b < 128 THEN <<b>> \o Utf8Decode(Tail(bytes))
         ELSE IF /\ b >= 194 /\ b < 224 /\ Len(bytes) >= 2
                 /\ bytes[2] >= 128 /\ bytes[2] < 192
              THEN <<(b - 192) * 64 + (bytes[2] - 128)>> \o Utf8Decode(Tail(Tail(bytes)))
              ELSE <<65533>> \o Utf8Decode(Tail(bytes))

(***************************************************************************)
(* KeyEntry and KeyFile objects.                                           *)
(***************************************************************************)
\* new KeyEntry()
NewKeyEntry == [version |-> 0, aesKey |-> Zeros(AES_KEY_LEN), hmacKey |-> Zeros(HMAC_KEY_LEN)]

\* null, where an entry is expected
NullEntry == [version |-> -1, aesKey |-> <<>>, hmacKey |-> <<>>]

\* new KeyFile(): no entries (a function with the empty domain), keyName ''
NewKeyFile == [keyName |-> <<>>, entries |-> <<>>]

\* KeyFile.isEmpty / isFilled
isEmpty(k) == DOMAIN k.entries = {}
isFilled(k) == ~isEmpty(k)

\* Map.prototype.set
MapSet(entries, key, value) ==
    [v \in (DOMAIN entries) \cup {key} |-> IF v = key THEN value ELSE entries[v]]

\* KeyFile.add
add(k, entry) == [k EXCEPT !.entries = MapSet(k.entries, entry.version, entry)]

\* KeyFile.get
get(k, version) == IF version \in DOMAIN k.entries THEN k.entries[version] ELSE NullEntry

\* Math.max(...keys) over a non-empty set of keys
RECURSIVE MathMaxFrom(_, _)
MathMaxFrom(S, acc) ==
    IF S = {} THEN acc
    ELSE LET x == CHOOSE y \in S : TRUE IN
         MathMaxFrom(S \ {x}, IF x > acc THEN x ELSE acc)

\* A plausible slip: Math.min in place of Math.max.
RECURSIVE MathMinFrom(_, _)
MathMinFrom(S, acc) ==
    IF S = {} THEN acc
    ELSE LET x == CHOOSE y \in S : TRUE IN
         MathMinFrom(S \ {x}, IF x < acc THEN x ELSE acc)

getLatestVersionMin(k) ==
    IF isEmpty(k) THEN [threw |-> TRUE, value |-> -1]
    ELSE LET x == CHOOSE y \in DOMAIN k.entries : TRUE IN
         [threw |-> FALSE, value |-> MathMinFrom(DOMAIN k.entries, x)]

\* KeyFile.getLatestVersion: throws on an empty key file
getLatestVersion(k) ==
    IF isEmpty(k) THEN [threw |-> TRUE, value |-> -1]
    ELSE LET x == CHOOSE y \in DOMAIN k.entries : TRUE IN
         [threw |-> FALSE, value |-> MathMaxFrom(DOMAIN k.entries, x)]

\* KeyFile.getLatest
getLatest(k) ==
    IF isEmpty(k) THEN NullEntry ELSE get(k, getLatestVersion(k).value)

\* KeyFile.setKeyName(keyName): keyName || ''
setKeyName(k, keyName) == [k EXCEPT !.keyName = keyName]

\* KeyFile.getKeyName: keyName || null, null being the empty sequence here
getKeyName(k) == k.keyName

\* A plausible slip: the wipe starts at the second octet.
explicitMemsetFromSecond(buffer, value) ==
    [i \in 1..Len(buffer) |-> IF i = 1 THEN buffer[i] ELSE value]

\* explicitMemset(buffer, value): the buffer afterwards (buffer[0] | 0 leaves
\* an octet as it is)
explicitMemset(buffer, value) == [i \in 1..Len(buffer) |-> value]

\* entry.destroy(): the entry object afterwards
KeyEntry_destroy(entry) ==
    [entry EXCEPT !.aesKey = explicitMemset(@, 0), !.hmacKey = explicitMemset(@, 0)]

\* keyFile.destroy(): the KeyFile afterwards, and the entry objects it held
\* as destroy left them
destroy(k) ==
    [kf |-> [k EXCEPT !.entries = <<>>],
     wiped |-> [v \in DOMAIN k.entries |-> KeyEntry_destroy(k.entries[v])]]

(***************************************************************************)
(* Serialisation: KeyEntry.store, KeyFile.storeHeader, KeyFile.store.      *)
(***************************************************************************)
KeyEntry_store(entry) ==
    storeBe32(KeyField_VERSION) \o storeBe32(4) \o storeBe32(entry.version)
    \o storeBe32(KeyField_AES_KEY) \o storeBe32(AES_KEY_LEN) \o entry.aesKey
    \o storeBe32(KeyField_HMAC_KEY) \o storeBe32(HMAC_KEY_LEN) \o entry.hmacKey
    \o storeBe32(KeyField_END)

storeHeader(k) ==
    (IF k.keyName # <<>>
     THEN storeBe32(HeaderField_KEY_NAME) \o storeBe32(Len(Utf8Encode(k.keyName)))
          \o Utf8Encode(k.keyName)
     ELSE <<>>)
    \o storeBe32(HeaderField_END)

\* Array.from(keys).sort((a, b) => b - a): the versions in descending order
RECURSIVE sortedVersions(_)
sortedVersions(S) ==
    IF S = {} THEN <<>>
    ELSE LET m == CHOOSE x \in S : \A y \in S : y <= x IN
         <<m>> \o sortedVersions(S \ {m})

RECURSIVE storeEntries(_, _)
storeEntries(k, versions) ==
    IF versions = <<>> THEN <<>>
    ELSE KeyEntry_store(k.entries[Head(versions)]) \o storeEntries(k, Tail(versions))

\* KeyFile.store: preamble, header, entries by descending version
store(k) ==
    KeyFileMagic \o storeBe32(FORMAT_VERSION) \o storeHeader(k)
    \o storeEntries(k, sortedVersions(DOMAIN k.entries))

(***************************************************************************)
(* Parsing: KeyFile.loadHeaderFromBuffer, loadEntryFromBuffer,             *)
(* loadFromBuffer, loadLegacyFromBuffer, loadFromFile.  A thrown           *)
(* MalformedKeyFileError or IncompatibleKeyFileError is the status         *)
(* "Malformed" or "Incompatible"; the object state at the throw is kept.   *)
(***************************************************************************)
\* A plausible slip: the low bit tested the wrong way round.
isCriticalInverted(fieldId) == fieldId % 2 = 0

\* `fieldId & 1`: an unknown field with an odd id is critical
isCritical(fieldId) == fieldId % 2 = 1

RECURSIVE loadHeaderFromBuffer(_, _, _)
loadHeaderFromBuffer(buffer, offset, keyName) ==
    IF offset + 4 > Len(buffer)
    THEN [status |-> "ok", offset |-> offset, keyName |-> keyName]
    ELSE
    LET fieldId == loadBe32(buffer, offset)
        off1 == offset + 4
    IN  IF fieldId = HeaderField_END
        THEN [status |-> "ok", offset |-> off1, keyName |-> keyName]
        ELSE IF off1 + 4 > Len(buffer)
        THEN [status |-> "Malformed", offset |-> off1, keyName |-> keyName]
        ELSE
        LET fieldLen == loadBe32(buffer, off1)
            off2 == off1 + 4
        IN  IF fieldLen > MAX_FIELD_LEN
            THEN [status |-> "Malformed", offset |-> off2, keyName |-> keyName]
            ELSE IF off2 + fieldLen > Len(buffer)
            THEN [status |-> "Malformed", offset |-> off2, keyName |-> keyName]
            ELSE IF fieldId = HeaderField_KEY_NAME
            THEN loadHeaderFromBuffer(buffer, off2 + fieldLen,
                                      Utf8Decode(Slice(buffer, off2, off2 + fieldLen)))
            ELSE IF isCritical(fieldId)
            THEN [status |-> "Incompatible", offset |-> off2, keyName |-> keyName]
            ELSE loadHeaderFromBuffer(buffer, off2 + fieldLen, keyName)

RECURSIVE loadEntryFromBuffer(_, _, _)
loadEntryFromBuffer(entry, buffer, offset) ==
    IF offset + 4 > Len(buffer)
    THEN [status |-> "ok", offset |-> offset, entry |-> entry]
    ELSE
    LET fieldId == loadBe32(buffer, offset)
        off1 == offset + 4
    IN  IF fieldId = KeyField_END
        THEN [status |-> "ok", offset |-> off1, entry |-> entry]
        ELSE IF off1 + 4 > Len(buffer)
        THEN [status |-> "Malformed", offset |-> off1, entry |-> entry]
        ELSE
        LET fieldLen == loadBe32(buffer, off1)
            off2 == off1 + 4
        IN  IF fieldLen > MAX_FIELD_LEN
            THEN [status |-> "Malformed", offset |-> off2, entry |-> entry]
            ELSE IF off2 + fieldLen > Len(buffer)
            THEN [status |-> "Malformed", offset |-> off2, entry |-> entry]
            ELSE IF fieldId = KeyField_VERSION
            THEN IF fieldLen # 4
                 THEN [status |-> "Malformed", offset |-> off2, entry |-> entry]
                 ELSE loadEntryFromBuffer(
                          [entry EXCEPT !.version = loadBe32(buffer, off2)],
                          buffer, off2 + 4)
            ELSE IF fieldId = KeyField_AES_KEY
            THEN IF fieldLen # AES_KEY_LEN
                 THEN [status |-> "Malformed", offset |-> off2, entry |-> entry]
                 ELSE loadEntryFromBuffer(
                          [entry EXCEPT !.aesKey = Slice(buffer, off2, off2 + AES_KEY_LEN)],
                          buffer, off2 + AES_KEY_LEN)
            ELSE IF fieldId = KeyField_HMAC_KEY
            THEN IF fieldLen # HMAC_KEY_LEN
                 THEN [status |-> "Malformed", offset |-> off2, entry |-> entry]
                 ELSE loadEntryFromBuffer(
                          [entry EXCEPT !.hmacKey = Slice(buffer, off2, off2 + HMAC_KEY_LEN)],
                          buffer, off2 + HMAC_KEY_LEN)
            ELSE IF isCritical(fieldId)
            THEN [status |-> "Incompatible", offset |-> off2, entry |-> entry]
            ELSE loadEntryFromBuffer(entry, buffer, off2 + fieldLen)

\* The entry loop of loadFromBuffer.  An iteration that starts with fewer than four
\* octets left reads nothing and adds a default entry; the loop then repeats that
\* iteration for ever: status "hang".
RECURSIVE loadEntriesFromBuffer(_, _, _)
loadEntriesFromBuffer(k, buffer, offset) ==
    IF offset >= Len(buffer) THEN [status |-> "ok", kf |-> k]
    ELSE LET r == loadEntryFromBuffer(NewKeyEntry, buffer, offset) IN
         IF r.status # "ok" THEN [status |-> r.status, kf |-> k]
         ELSE IF r.offset = offset THEN [status |-> "hang", kf |-> add(k, r.entry)]
         ELSE loadEntriesFromBuffer(add(k, r.entry), buffer, r.offset)

\* KeyFile.loadFromBuffer (new format)
loadFromBuffer(k, buffer) ==
    IF Len(buffer) < 16 THEN [status |-> "Malformed", kf |-> k]
    ELSE IF Slice(buffer, 0, 12) # KeyFileMagic THEN [status |-> "Malformed", kf |-> k]
    ELSE IF loadBe32(buffer, 12) # FORMAT_VERSION THEN [status |-> "Incompatible", kf |-> k]
    ELSE LET h == loadHeaderFromBuffer(buffer, 16, k.keyName)
             k1 == [k EXCEPT !.keyName = h.keyName]
         IN  IF h.status # "ok" THEN [status |-> h.status, kf |-> k1]
             ELSE loadEntriesFromBuffer(k1, buffer, h.offset)

\* KeyFile.loadLegacyFromBuffer
loadLegacyFromBuffer(k, buffer) ==
    IF Len(buffer) < AES_KEY_LEN + HMAC_KEY_LEN THEN [status |-> "Malformed", kf |-> k]
    ELSE IF Len(buffer) # AES_KEY_LEN + HMAC_KEY_LEN THEN [status |-> "Malformed", kf |-> k]
    ELSE [status |-> "ok",
          kf |-> add(k, [version |-> 0,
                         aesKey |-> Slice(buffer, 0, AES_KEY_LEN),
                         hmacKey |-> Slice(buffer, AES_KEY_LEN, AES_KEY_LEN + HMAC_KEY_LEN)])]

\* The value of `file` when no file is at the path
NoFile == <<-1>>

\* KeyFile.loadFromFile: new format first, then legacy; every error becomes false
loadFromFile(k, content) ==
    IF content = NoFile THEN [ret |-> FALSE, status |-> "NoFile", kf |-> k]
    ELSE LET r == loadFromBuffer(k, content) IN
         IF r.status = "ok" THEN [ret |-> TRUE, status |-> "ok", kf |-> r.kf]
         ELSE IF r.status = "hang" THEN [ret |-> FALSE, status |-> "hang", kf |-> r.kf]
         ELSE LET l == loadLegacyFromBuffer(r.kf, content) IN
              IF l.status = "ok" THEN [ret |-> TRUE, status |-> r.status, kf |-> l.kf]
              ELSE [ret |-> FALSE, status |-> r.status, kf |-> r.kf]

(***************************************************************************)
(* The key-file scenario: a KeyFile is built with add, setKeyName and      *)
(* generate, stored to a file, the file is possibly changed (a field       *)
(* inserted, octets cut off, an entry repeated, the preamble damaged) or   *)
(* a legacy file is written, and the file is loaded into a KeyFile object. *)
(***************************************************************************)
Versions == {1, 2, 66051}
Seeds == {1, 2}
\* '' (no name), "k", "é" (two octets in UTF-8) and "../x"
Names == {<<>>, <<107>>, <<233>>, <<46, 46, 47, 120>>}
UnknownIds == {2, 7}
FieldLens == {0, 3}
Places == {"header", "entry", "entryEnd"}
Cuts == {2, 4, 40}

\* Key material: the octets randomBytes or a caller put in a key buffer
KeyBytes(seed, len) == [i \in 1..len |-> (seed * 41 + i * 7) % 256]

MakeEntry(version, seed) ==
    [version |-> version, aesKey |-> KeyBytes(seed, AES_KEY_LEN),
     hmacKey |-> KeyBytes(seed + 100, HMAC_KEY_LEN)]

NoInfo == [base |-> <<>>, kind |-> "none", id |-> 0, place |-> "none"]

NoObs == [op |-> "none", which |-> "none", pre |-> NewKeyFile, ret |-> FALSE,
          status |-> "none", entry |-> NullEntry, value |-> -1, wiped |-> <<>>]

\* The offset at which the header of a stored key file ends
HeaderEnd(buffer) == loadHeaderFromBuffer(buffer, 16, <<>>).offset

InsertAt(buffer, offset, bytes) ==
    Slice(buffer, 0, offset) \o bytes \o Slice(buffer, offset, Len(buffer))

FieldRecord(id, len) == storeBe32(id) \o storeBe32(len) \o [i \in 1..len |-> 170]

PlaceOffset(buffer, place) ==
    CASE place = "header" -> 16
      [] place = "entry" -> HeaderEnd(buffer)
      [] place = "entryEnd" -> Len(buffer) - 4

\* No file at any path, and no stream operation started.
Paths == {"plain", "cipher", "cipher2", "decrypted"}

NoDisk == [p \in Paths |-> NoFile]

NoMeta ==
    [p \in {"cipher", "cipher2"} |->
        [key |-> <<>>, nonce |-> <<>>, supplied |-> FALSE, whole |-> FALSE]]

NoJob ==
    [op |-> "none", state |-> "idle", inputPath |-> "none", outputPath |-> "none",
     key |-> <<>>, nonce |-> <<>>, byteCounter |-> 0,
     position |-> 0, readable |-> <<>>, ended |-> FALSE, readableEnded |-> FALSE,
     processing |-> FALSE, writing |-> <<>>, hasWrite |-> FALSE,
     writes |-> <<>>, acked |-> 0, error |-> "none"]

StreamIdle ==
    /\ disk = NoDisk
    /\ meta = NoMeta
    /\ job = NoJob

KeyIdle ==
    /\ kf = NewKeyFile
    /\ file = NoFile
    /\ fileInfo = NoInfo
    /\ loaded = NewKeyFile
    /\ obs = NoObs

\* No run of the program.
NoProc ==
    [state |-> "none", entry |-> "none", argv |-> <<>>, stdin |-> <<>>,
     stdout |-> <<>>, stdoutOctets |-> <<>>, stderr |-> <<>>, exitCode |-> -1]

MainIdle == proc = NoProc

\* validateKeyName not called.
NoNameCall == [state |-> "none", keyName |-> <<>>, valid |-> FALSE]

NameIdle == nameCall = NoNameCall

\* No encryptor constructed.
NoCtr ==
    [state |-> "none", plain |-> <<>>, enc |-> <<>>, dec |-> <<>>, long |-> FALSE,
     sent |-> 0, cipher |-> <<>>, encCalls |-> 0, afterLimit |-> 0,
     taken |-> 0, decrypted |-> <<>>, decCalls |-> 0,
     last |-> [who |-> "none", threw |-> FALSE, output |-> <<>>, written |-> <<>>]]

CtrIdle == ctr = NoCtr

\* No repository, no lifecycle command run.
NoRepo ==
    [state |-> "none", dirty |-> FALSE, files |-> <<>>, config |-> {}, tracked |-> <<>>]

NoRun ==
    [command |-> "none", args |-> <<>>, failAt |-> 0, fault |-> [at |-> 0, step |-> "none"],
     exitCode |-> -1, error |-> "none",
     pre |-> NoRepo, log |-> <<>>]

RepoIdle == repo = NoRepo /\ run = NoRun

NoLs == [state |-> "none", index |-> <<>>, keyName |-> <<>>, lsOutput |-> <<>>,
         encryptedFiles |-> <<>>]

LsIdle == ls = NoLs

NoCop ==
    [state |-> "none", caller |-> "none", script |-> <<>>, names |-> 0,
     spawned |-> FALSE, kind |-> "none",
     stdinProxy |-> "none", stdinClosed |-> FALSE, written |-> <<>>, proxyIn |-> <<>>,
     stdinPiped |-> FALSE, stdinFlowTick |-> FALSE, childStdin |-> "none", sockIn |-> <<>>, sockInFin |-> FALSE,
     received |-> <<>>, childEof |-> FALSE,
     child |-> "none", terminated |-> FALSE, exitSeen |-> FALSE,
     pending |-> 0, produced |-> 0, kernelOut |-> 0,
     stdoutBuf |-> 0, stdoutFlowing |-> FALSE, stdoutPiped |-> FALSE, stdoutEof |-> FALSE,
     stdoutEnded |-> FALSE, stdoutProxy |-> "none", stdoutClosed |-> FALSE,
     proxyOut |-> 0, needDrain |-> FALSE, collector |-> "none", collected |-> 0,
     waitPromise |-> "none"]

CopIdle == cop = NoCop

KeyInit == KeyIdle /\ StreamIdle /\ MainIdle /\ NameIdle /\ CtrIdle /\ RepoIdle /\ LsIdle /\ CopIdle

\* keyFile.add(entry)
Add(version, seed) ==
    /\ file = NoFile
    /\ Cardinality(DOMAIN kf.entries \cup {version}) <= MaxEntries
    /\ kf' = add(kf, MakeEntry(version, seed))
    /\ obs' = [NoObs EXCEPT !.op = "add", !.pre = kf, !.value = version,
                            !.ret = TRUE, !.entry = MakeEntry(version, seed)]
    /\ UNCHANGED <<file, fileInfo, loaded>>
    /\ UNCHANGED outsideKey

\* keyFile.setKeyName(name)
SetKeyName(name) ==
    /\ file = NoFile
    /\ kf' = setKeyName(kf, name)
    /\ obs' = [NoObs EXCEPT !.op = "setKeyName", !.pre = kf]
    /\ UNCHANGED <<file, fileInfo, loaded>>
    /\ UNCHANGED outsideKey

\* keyFile.generate(): entries.clear(), then one entry at FORMAT_VERSION with random keys
Generate(seed) ==
    /\ file = NoFile
    /\ kf' = add([kf EXCEPT !.entries = <<>>], MakeEntry(FORMAT_VERSION, seed))
    /\ obs' = [NoObs EXCEPT !.op = "generate", !.pre = kf]
    /\ UNCHANGED <<file, fileInfo, loaded>>
    /\ UNCHANGED outsideKey

\* keyFile.getLatest() on either object
GetLatest(which) ==
    LET k == IF which = "kf" THEN kf ELSE loaded IN
    /\ obs' = [NoObs EXCEPT !.op = "getLatest", !.which = which, !.pre = k,
                            !.entry = getLatest(k)]
    /\ UNCHANGED <<kf, file, fileInfo, loaded>>
    /\ UNCHANGED outsideKey

\* keyFile.getLatestVersion() on either object
GetLatestVersion(which) ==
    LET k == IF which = "kf" THEN kf ELSE loaded
        r == getLatestVersion(k)
    IN
    /\ obs' = [NoObs EXCEPT !.op = "getLatestVersion", !.which = which, !.pre = k,
                            !.ret = ~r.threw, !.value = r.value]
    /\ UNCHANGED <<kf, file, fileInfo, loaded>>
    /\ UNCHANGED outsideKey

\* keyFile.storeToFile(path)
StoreToFile ==
    /\ file = NoFile
    /\ file' = store(kf)
    /\ fileInfo' = [NoInfo EXCEPT !.base = store(kf), !.kind = "stored"]
    /\ obs' = [NoObs EXCEPT !.op = "storeToFile", !.pre = kf, !.ret = TRUE]
    /\ UNCHANGED <<kf, loaded>>
    /\ UNCHANGED outsideKey

\* A legacy key file is put at the path: 32 + 64 octets, and `extra` octets after them
WriteLegacy(seed, extra) ==
    /\ file = NoFile
    /\ file' = KeyBytes(seed, AES_KEY_LEN) \o KeyBytes(seed + 100, HMAC_KEY_LEN)
                 \o [i \in 1..extra |-> 9]
    /\ fileInfo' = [NoInfo EXCEPT !.base = file', !.kind = "legacy", !.id = extra]
    /\ obs' = [NoObs EXCEPT !.op = "writeLegacy"]
    /\ UNCHANGED <<kf, loaded>>
    /\ UNCHANGED outsideKey

\* The stored file gets a field record of an id no parser knows
InsertField(id, len, place) ==
    /\ fileInfo.kind = "stored"
    /\ place # "header" => isFilled(kf)
    /\ file' = InsertAt(file, PlaceOffset(file, place), FieldRecord(id, len))
    /\ fileInfo' = [fileInfo EXCEPT !.kind = "field", !.id = id, !.place = place]
    /\ obs' = [NoObs EXCEPT !.op = "insertField"]
    /\ UNCHANGED <<kf, loaded>>
    /\ UNCHANGED outsideKey

\* The stored file loses its last n octets
Truncate(n) ==
    /\ fileInfo.kind = "stored"
    /\ n <= Len(file)
    /\ file' = Slice(file, 0, Len(file) - n)
    /\ fileInfo' = [fileInfo EXCEPT !.kind = "truncated", !.id = n]
    /\ obs' = [NoObs EXCEPT !.op = "truncate"]
    /\ UNCHANGED <<kf, loaded>>
    /\ UNCHANGED outsideKey

\* The stored file gets one more entry record, at a version it already holds
AppendDuplicate(version, seed) ==
    /\ fileInfo.kind = "stored"
    /\ version \in DOMAIN kf.entries
    /\ MakeEntry(version, seed) # kf.entries[version]
    /\ file' = file \o KeyEntry_store(MakeEntry(version, seed))
    /\ fileInfo' = [fileInfo EXCEPT !.kind = "duplicate", !.id = version]
    /\ obs' = [NoObs EXCEPT !.op = "appendDuplicate", !.entry = MakeEntry(version, seed)]
    /\ UNCHANGED <<kf, loaded>>
    /\ UNCHANGED outsideKey

\* The stored file's preamble is damaged: "magic" (first octet) or "format" (version 3)
DamagePreamble(what) ==
    /\ fileInfo.kind = "stored"
    /\ file' = IF what = "magic" THEN [file EXCEPT ![1] = 1] ELSE [file EXCEPT ![16] = 3]
    /\ fileInfo' = [fileInfo EXCEPT !.kind = what]
    /\ obs' = [NoObs EXCEPT !.op = "damagePreamble"]
    /\ UNCHANGED <<kf, loaded>>
    /\ UNCHANGED outsideKey

\* const keyFile = new KeyFile() for the next load
NewLoaded ==
    /\ loaded # NewKeyFile
    /\ loaded' = NewKeyFile
    /\ obs' = [NoObs EXCEPT !.op = "newLoaded"]
    /\ UNCHANGED <<kf, file, fileInfo>>
    /\ UNCHANGED outsideKey

\* await loaded.loadFromBuffer(fs.readFileSync(path))
LoadFromBuffer ==
    /\ file # NoFile
    /\ LET r == loadFromBuffer(loaded, file) IN
       /\ loaded' = r.kf
       /\ obs' = [NoObs EXCEPT !.op = "loadFromBuffer", !.pre = loaded,
                               !.ret = (r.status = "ok"), !.status = r.status]
    /\ UNCHANGED <<kf, file, fileInfo>>
    /\ UNCHANGED outsideKey

\* await loaded.loadFromFile(path)
LoadFromFile ==
    /\ LET r == loadFromFile(loaded, file) IN
       /\ loaded' = r.kf
       /\ obs' = [NoObs EXCEPT !.op = "loadFromFile", !.pre = loaded,
                               !.ret = r.ret, !.status = r.status]
    /\ UNCHANGED <<kf, file, fileInfo>>
    /\ UNCHANGED outsideKey

\* keyFile.destroy() on the object being built, or on the one that was loaded
Destroy(which) ==
    LET k == IF which = "kf" THEN kf ELSE loaded
        r == destroy(k)
    IN /\ which = "kf" => file = NoFile
       /\ kf' = IF which = "kf" THEN r.kf ELSE kf
       /\ loaded' = IF which = "loaded" THEN r.kf ELSE loaded
       /\ obs' = [NoObs EXCEPT !.op = "destroy", !.which = which, !.pre = k,
                               !.wiped = r.wiped]
       /\ UNCHANGED <<file, fileInfo>>
       /\ UNCHANGED outsideKey

KeyNext ==
    \/ \E v \in Versions, s \in Seeds : Add(v, s)
    \/ \E n \in Names : SetKeyName(n)
    \/ \E s \in Seeds : Generate(s)
    \/ \E w \in {"kf", "loaded"} : GetLatest(w)
    \/ \E w \in {"kf", "loaded"} : GetLatestVersion(w)
    \/ StoreToFile
    \/ \E s \in Seeds, x \in {0, 1} : WriteLegacy(s, x)
    \/ \E id \in UnknownIds, n \in FieldLens, p \in Places : InsertField(id, n, p)
    \/ \E n \in Cuts : Truncate(n)
    \/ \E v \in Versions, s \in Seeds : AppendDuplicate(v, s)
    \/ \E w \in {"magic", "format"} : DamagePreamble(w)
    \/ NewLoaded
    \/ LoadFromBuffer
    \/ LoadFromFile
    \/ \E w \in {"kf", "loaded"} : Destroy(w)

SpecKey == KeyInit /\ [][KeyNext]_vars

(***************************************************************************)
(* Properties of the key file.                                             *)
(***************************************************************************)
IsLoad == obs.op \in {"loadFromBuffer", "loadFromFile"}

\* The largest version of a filled key file
MaxVersion(k) == CHOOSE v \in DOMAIN k.entries : \A w \in DOMAIN k.entries : w <= v

\* C2: a key file built with setKeyName and add, stored, and parsed into a new
\* KeyFile gives the same name and, at every version, the same cipher key and MAC
\* key; storing the parsed key file gives the same octets, of the same length.
C2_StoreLoadRoundTrip ==
    (IsLoad /\ obs.pre = NewKeyFile /\ fileInfo.kind = "stored") =>
        /\ obs.ret
        /\ obs.status = "ok"
        /\ getKeyName(loaded) = getKeyName(kf)
        /\ DOMAIN loaded.entries = DOMAIN kf.entries
        /\ \A v \in DOMAIN kf.entries :
              /\ get(loaded, v).version = v
              /\ get(loaded, v).aesKey = kf.entries[v].aesKey
              /\ get(loaded, v).hmacKey = kf.entries[v].hmacKey
        /\ store(loaded) = file
        /\ Len(store(loaded)) = Len(file)

C2_Witness ==
    /\ obs.op = "loadFromFile"
    /\ obs.pre = NewKeyFile
    /\ fileInfo.kind = "stored"
    /\ kf.keyName = <<233>>
    /\ DOMAIN kf.entries = {2, 66051}
    /\ loaded = kf

C6_WitnessOdd ==
    /\ obs.op = "loadFromBuffer"
    /\ fileInfo.kind = "field"
    /\ fileInfo.id = 7
    /\ fileInfo.place = "header"
    /\ obs.status = "Incompatible"

\* C7: a key file whose last entry ends at the end of input without its END record
\* fails to parse with MalformedKeyFile, and that entry is not added.
C7_TruncatedEntryRejected ==
    (IsLoad /\ obs.pre = NewKeyFile /\ fileInfo.kind = "truncated" /\ fileInfo.id = 4
        /\ isFilled(kf)) =>
        /\ obs.status = "Malformed"
        /\ sortedVersions(DOMAIN kf.entries)[Cardinality(DOMAIN kf.entries)]
              \notin DOMAIN loaded.entries

\* C8: a parse that fails leaves the KeyFile object with the name and the entries
\* it had before the parse.
C8_FailedParseKeepsNothing ==
    (IsLoad /\ ~obs.ret /\ obs.status # "hang") => loaded = obs.pre

\* C9: add(entry) at a version the key file holds is an error and leaves the entry
\* stored at that version in place.
C9_AddExistingVersionIsError ==
    (obs.op = "add" /\ obs.value \in DOMAIN obs.pre.entries) =>
        /\ ~obs.ret
        /\ kf.entries[obs.value] = obs.pre.entries[obs.value]

\* C9, for a parsed file: the second of two entries at one version does not replace
\* the first.
C9_ParsedDuplicateKeepsFirst ==
    (IsLoad /\ obs.pre = NewKeyFile /\ fileInfo.kind = "duplicate") =>
        /\ ~obs.ret
        /\ fileInfo.id \in DOMAIN loaded.entries
              => loaded.entries[fileInfo.id] = kf.entries[fileInfo.id]

\* C10: getLatest returns the entry at the largest version and getLatestVersion
\* that version; on a key file without entries getLatestVersion throws and
\* getLatest returns null.
C10_LatestIsMaxVersion ==
    /\ (obs.op = "getLatest" /\ isFilled(obs.pre)) =>
          /\ obs.entry = obs.pre.entries[MaxVersion(obs.pre)]
          /\ obs.entry.version = MaxVersion(obs.pre)
    /\ (obs.op = "getLatestVersion" /\ isFilled(obs.pre)) =>
          obs.ret /\ obs.value = MaxVersion(obs.pre)
    /\ (obs.op = "getLatest" /\ isEmpty(obs.pre)) => obs.entry = NullEntry
    /\ (obs.op = "getLatestVersion" /\ isEmpty(obs.pre)) => ~obs.ret

C10_Witness ==
    /\ obs.op = "getLatest"
    /\ obs.which = "kf"
    /\ DOMAIN obs.pre.entries = {1, 66051}
    /\ obs.entry.version = 66051

(***************************************************************************)
(* The counter-mode cipher and its stream driver (src/crypto.ts), and the  *)
(* file API built on it (src/index.ts, src/fileStream.ts).                 *)
(***************************************************************************)
NONCE_LEN == 12
BLOCK_LEN == 16

\* Buffer.alloc(1024) in processStream: the most octets one step processes.
StreamBufferLen == 1024

\* FileHandleReadStream is built with the Readable defaults, so _read(size)
\* is asked for the default high-water mark of a byte stream.
HighWaterMark == 16384

\* a ^ b on octets
RECURSIVE BitXor(_, _)
BitXor(a, b) ==
    IF a = 0 THEN b
    ELSE IF b = 0 THEN a
    ELSE ((a + b) % 2) + 2 * BitXor(a \div 2, b \div 2)

\* AesEcbEncryptor.encrypt: one 16-octet block under a 32-octet key.  AES is
\* modelled by what counter mode needs of it: for a fixed key it is a
\* permutation of the blocks, so distinct counter blocks give distinct pads.
AesEcbEncrypt(key, plaintext) ==
    [j \in 1..BLOCK_LEN |-> (plaintext[j] + key[j] + key[j + BLOCK_LEN]) % 256]

\* The pad octet that AesCtrEncryptor.process uses at stream position n:
\* ctrValue is nonce || storeBe32(blockNumber), pad is its encryption.
padOctet(key, nonce, n) ==
    AesEcbEncrypt(key, nonce \o storeBe32(n \div BLOCK_LEN))[(n % BLOCK_LEN) + 1]

\* AesCtrEncryptor.process(input, output, length) with the encryptor at
\* byteCounter: the output octets (byteCounter advances by length).
process(key, nonce, byteCounter, input, length) ==
    [i \in 1..length |-> BitXor(input[i], padOctet(key, nonce, byteCounter + i - 1))]

\* Inputs of the stream scenario.
PlainLens == {0, 1, 17, 1024, 1025}

PlainBytes(n) == [i \in 1..n |-> (i * 37 + 11) % 256]

NonceBytes(seed) == [i \in 1..NONCE_LEN |-> (seed * 97 + i * 5) % 256]

Nonces == {NonceBytes(1), NonceBytes(2)}

NoNonce == <<>>

StreamInit ==
    /\ KeyIdle
    /\ \E n \in PlainLens : disk = [NoDisk EXCEPT !["plain"] = PlainBytes(n)]
    /\ meta = NoMeta
    /\ job = NoJob
    /\ MainIdle
    /\ NameIdle
    /\ CtrIdle /\ RepoIdle /\ LsIdle /\ CopIdle

\* encryptFile("plain", outputPath, aesKey, hmacKey, nonce?): without a nonce
\* argument the nonce is drawn by randomBytes.
EncryptFile(outputPath, seed, nonceArg, random) ==
    /\ job.state # "running"
    /\ disk["plain"] # NoFile
    /\ LET nonce == IF nonceArg = NoNonce THEN random ELSE nonceArg
           key == KeyBytes(seed, AES_KEY_LEN)
       IN /\ job' = [NoJob EXCEPT !.op = "encryptFile", !.state = "running",
                                  !.inputPath = "plain", !.outputPath = outputPath,
                                  !.key = key, !.nonce = nonce]
          /\ meta' = [meta EXCEPT ![outputPath] =
                         [key |-> key, nonce |-> nonce,
                          supplied |-> nonceArg # NoNonce, whole |-> FALSE]]
    /\ disk' = [disk EXCEPT ![outputPath] = <<>>]
    /\ UNCHANGED outsideStream

\* decryptFile(inputPath, "decrypted", aesKey, hmacKey, nonce) with the key
\* and nonce the input was encrypted with.
DecryptFile(inputPath) ==
    /\ job.state # "running"
    /\ meta[inputPath].whole
    /\ job' = [NoJob EXCEPT !.op = "decryptFile", !.state = "running",
                            !.inputPath = inputPath, !.outputPath = "decrypted",
                            !.key = meta[inputPath].key, !.nonce = meta[inputPath].nonce]
    /\ disk' = [disk EXCEPT !["decrypted"] = <<>>]
    /\ UNCHANGED <<meta, outsideStream>>

\* FileHandleReadStream._read(size): read at `position`, push what was read,
\* or push(null) at end of file.  The Readable asks while it holds less than
\* its high-water mark.
Read ==
    /\ job.state = "running"
    /\ ~job.ended
    /\ Len(job.readable) < HighWaterMark
    /\ LET data == disk[job.inputPath]
           bytesRead == Min(HighWaterMark, Len(data) - job.position)
       IN job' = IF bytesRead = 0
                 THEN [job EXCEPT !.ended = TRUE]
                 ELSE [job EXCEPT !.position = @ + bytesRead,
                                  !.readable = @ \o Slice(data, job.position,
                                                          job.position + bytesRead)]
    /\ UNCHANGED <<disk, meta, outsideStream>>

\* processChunk with data buffered: input.read() hands over all that is
\* buffered, the first chunkSize octets of it are processed and handed to
\* output.write.
ProcessChunk ==
    /\ job.state = "running"
    /\ ~job.processing
    /\ job.readable # <<>>
    /\ LET chunk == job.readable
           chunkSize == Min(Len(chunk), StreamBufferLen)
           outputChunk == process(job.key, job.nonce, job.byteCounter, chunk, chunkSize)
       IN job' = [job EXCEPT !.processing = TRUE, !.readable = <<>>,
                             !.byteCounter = @ + chunkSize,
                             !.writing = outputChunk, !.hasWrite = TRUE,
                             !.writes = Append(@, [offset |-> job.position - Len(chunk),
                                                   length |-> chunkSize])]
    /\ UNCHANGED <<disk, meta, outsideStream>>

\* FileHandleWriteStream._write and the write callback of processChunk:
\* the chunk reaches the file, processing is cleared, processChunk is
\* scheduled again.
WriteCallback ==
    /\ job.state = "running"
    /\ job.hasWrite
    /\ disk' = [disk EXCEPT ![job.outputPath] = @ \o job.writing]
    /\ job' = [job EXCEPT !.hasWrite = FALSE, !.writing = <<>>, !.processing = FALSE,
                          !.acked = @ + 1]
    /\ UNCHANGED <<meta, outsideStream>>

\* The promise resolves; the caller's finally block destroys both streams.
resolve(j) == [j EXCEPT !.state = "resolved"]

settle(m, j) ==
    IF j.outputPath \in DOMAIN m THEN [m EXCEPT ![j.outputPath].whole = TRUE] ELSE m

\* 'end' handled without the `if (processing) return` of processChunk
EmitEndIgnoringProcessing ==
    /\ job.state = "running"
    /\ job.ended
    /\ job.readable = <<>>
    /\ ~job.readableEnded
    /\ job' = resolve([job EXCEPT !.readableEnded = TRUE])
    /\ meta' = settle(meta, job)
    /\ UNCHANGED <<disk, outsideStream>>

\* 'end' is emitted once the stream has ended and its buffer is drained; the
\* listener is processChunk, which returns at once while a write is pending
\* and resolves otherwise.
EmitEnd ==
    /\ job.state = "running"
    /\ job.ended
    /\ job.readable = <<>>
    /\ ~job.readableEnded
    /\ IF job.processing
       THEN /\ job' = [job EXCEPT !.readableEnded = TRUE]
            /\ meta' = meta
       ELSE /\ job' = resolve([job EXCEPT !.readableEnded = TRUE])
            /\ meta' = settle(meta, job)
    /\ UNCHANGED <<disk, outsideStream>>

\* processChunk run from setImmediate after the last write: read() is null
\* and readableEnded holds.
ProcessChunkAtEnd ==
    /\ job.state = "running"
    /\ ~job.processing
    /\ job.readable = <<>>
    /\ job.readableEnded
    /\ job' = resolve(job)
    /\ meta' = settle(meta, job)
    /\ UNCHANGED <<disk, outsideStream>>

\* reject(error): the promise is rejected; the caller's finally block
\* destroys both streams.
reject(j, error) == [j EXCEPT !.state = "rejected", !.error = error]

\* fileHandle.read fails in _read: destroy(error) emits 'error' on the input,
\* and the 'error' listener rejects.
InputError ==
    /\ job.state = "running"
    /\ ~job.ended
    /\ job' = reject(job, "input")
    /\ UNCHANGED <<disk, meta, outsideStream>>

\* The write callback of processChunk called with an error: processing is
\* cleared, the promise is rejected, processChunk is not scheduled again.
WriteCallbackError ==
    /\ job.state = "running"
    /\ job.hasWrite
    /\ job' = reject([job EXCEPT !.hasWrite = FALSE, !.writing = <<>>,
                                 !.processing = FALSE, !.acked = @ + 1], "write")
    /\ UNCHANGED <<disk, meta, outsideStream>>

\* processChunk with data buffered and encryptor.process throwing (the
\* cipher fails): the catch block rejects, no write is issued, processing
\* stays set.
ProcessChunkThrows ==
    /\ job.state = "running"
    /\ ~job.processing
    /\ job.readable # <<>>
    /\ job' = reject([job EXCEPT !.processing = TRUE, !.readable = <<>>], "crypto")
    /\ UNCHANGED <<disk, meta, outsideStream>>

StreamNext ==
    \/ \E o \in {"cipher", "cipher2"}, s \in Seeds, n \in Nonces \cup {NoNonce},
          r \in Nonces : EncryptFile(o, s, n, r)
    \/ \E i \in {"cipher", "cipher2"} : DecryptFile(i)
    \/ Read
    \/ ProcessChunk
    \/ WriteCallback
    \/ EmitEnd
    \/ ProcessChunkAtEnd

SpecStream == StreamInit /\ [][StreamNext]_vars

\* C1: when decryptFile of a file that encryptFile made from P, with the same
\* key and nonce, has completed, the decrypted file is byte-identical to P.
C1_EncryptDecryptRoundTrip ==
    (job.op = "decryptFile" /\ job.state = "resolved")
        => disk["decrypted"] = disk["plain"]

\* C4: two completed encryptions of the same plaintext under the same key,
\* neither given a nonce by the caller, are byte-identical.
C4_EncryptionDeterministic ==
    ( /\ meta["cipher"].whole /\ meta["cipher2"].whole
      /\ ~meta["cipher"].supplied /\ ~meta["cipher2"].supplied
      /\ meta["cipher"].key = meta["cipher2"].key )
        => disk["cipher"] = disk["cipher2"]

(***************************************************************************)
(* The command-line program (src/gitCrypt.ts, src/cli.ts).  A console.log  *)
(* or console.error call is one item of stdout or stderr: <<what, about>>. *)
(* Raw octets written to standard output are kept apart in stdoutOctets.   *)
(***************************************************************************)
VERSION == "0.8.0-ts"

\* argv.slice(1)
slice1(argv) == IF argv = <<>> THEN <<>> ELSE Tail(argv)

\* The commands main() hands to src/commands.ts.
LifecycleCommands == {"init", "unlock", "lock", "export-key", "keygen", "status"}

\* helpForCommand(command): TRUE when it printed the command's help
helpForCommand(command) == command \in LifecycleCommands

mainResult(exitCode, stdout, stderr) ==
    [exitCode |-> exitCode, stdout |-> stdout, stdoutOctets |-> <<>>, stderr |-> stderr]

\* main(argv) for the commands it settles itself: what it returns and what
\* it has printed.  Nothing in main reads standard input or writes octets
\* to standard output.
main(argv) ==
    LET argv0 == IF argv # <<>> /\ argv[1] # "" THEN argv[1] ELSE "git-crypt"
        args == slice1(argv)
        command == args[1]
        commandArgs == slice1(args)
        printUsage == <<"usage", argv0>>
        notImplemented(what) == mainResult(1, <<>>, << <<"not implemented", what>> >>)
    IN  IF args = <<>> THEN mainResult(2, <<printUsage>>, <<>>)
        ELSE IF command \in {"help", "--help", "-h"} THEN
            IF Len(commandArgs) = 1
            THEN IF helpForCommand(commandArgs[1])
                 THEN mainResult(0, << <<"help", commandArgs[1]>> >>, <<>>)
                 ELSE mainResult(2, <<>>, << <<"unknown command", commandArgs[1]>> >>)
            ELSE mainResult(0, <<printUsage>>, <<>>)
        ELSE IF command \in {"version", "--version", "-v"} THEN
            mainResult(0, << <<"version", VERSION>> >>, <<>>)
        ELSE CASE command = "clean" -> notImplemented("clean command")
               [] command = "smudge" -> notImplemented("smudge command")
               [] command = "diff" -> notImplemented("diff command")
               [] command \in {"add-gpg-user", "rm-gpg-user", "ls-gpg-users"} ->
                      notImplemented("GPG commands")
               [] command = "migrate-key" -> notImplemented("migrate-key command")
               [] OTHER -> mainResult(2, <<printUsage>>, << <<"unknown command", command>> >>)

\* process.argv as each entry point hands it to main: gitCrypt.ts passes
\* process.argv.slice(1), cli.ts passes process.argv.
entryArgv(entry, processArgv) ==
    IF entry = "gitCrypt" THEN slice1(processArgv) ELSE processArgv

\* Inputs of the command-line scenario.
Entries == {"gitCrypt", "cli"}

Commands ==
    {"help", "--help", "-h", "version", "--version", "-v", "clean", "smudge", "diff",
     "add-gpg-user", "rm-gpg-user", "ls-gpg-users", "migrate-key", "frobnicate"}

Operands == {"init", "keygen", "smudge", "file.txt"}

ArgLists ==
    {<<>>} \cup {<<c>> : c \in Commands}
           \cup {<<c, a>> : c \in Commands, a \in Operands}
           \cup {<<c, a, a>> : c \in {"help", "diff"}, a \in Operands}

\* "hello", nothing, and octets that begin with a zero octet
Hello == <<104, 101, 108, 108, 111>>

Stdins == {Hello, <<>>, <<0, 71, 73, 84>>}

MainInit ==
    /\ KeyIdle
    /\ StreamIdle
    /\ NameIdle
    /\ CtrIdle /\ RepoIdle /\ LsIdle /\ CopIdle
    /\ proc = NoProc

\* The program is started: node <script> args..., with octets on stdin.
Spawn(entry, args, stdin) ==
    /\ proc.state \in {"none", "exited"}
    /\ proc' = [NoProc EXCEPT !.state = "started", !.entry = entry,
                              !.argv = <<"node", entry>> \o args, !.stdin = stdin]
    /\ UNCHANGED outsideMain

\* main(...) runs to its return value.
Main ==
    /\ proc.state = "started"
    /\ LET argv == entryArgv(proc.entry, proc.argv)
           r == main(argv)
       IN /\ slice1(argv) # <<>> => slice1(argv)[1] \notin LifecycleCommands
          /\ proc' = [proc EXCEPT !.state = "returned", !.exitCode = r.exitCode,
                                  !.stdout = r.stdout, !.stdoutOctets = r.stdoutOctets,
                                  !.stderr = r.stderr]
    /\ UNCHANGED outsideMain

\* .then(exitCode => process.exit(exitCode))
ProcessExit ==
    /\ proc.state = "returned"
    /\ proc' = [proc EXCEPT !.state = "exited"]
    /\ UNCHANGED outsideMain

MainNext ==
    \/ \E e \in Entries, a \in ArgLists, i \in Stdins : Spawn(e, a, i)
    \/ Main
    \/ ProcessExit

SpecMain == MainInit /\ [][MainNext]_vars

\* The command and its operands as the user typed them after the script name.
typed == SubSeq(proc.argv, 3, Len(proc.argv))

\* C3: the clean operation on plaintext P exits successfully having written
\* 10 octets of magic, 12 octets of nonce and the ciphertext of P (as long as
\* P) to standard output: 22 + |P| octets, exactly 22 for empty P.
C3_CleanWritesEnvelope ==
    (proc.state = "exited" /\ typed # <<>> /\ typed[1] = "clean")
        => /\ proc.exitCode = 0
           /\ Len(proc.stdoutOctets) = 10 + 12 + Len(proc.stdin)

\* C5: smudge, given standard input that does not begin with the magic tag,
\* writes the input verbatim to standard output and exits with status 0.
C5_SmudgePassesThrough ==
    (proc.state = "exited" /\ typed = <<"smudge">> /\ proc.stdin = Hello)
        => /\ proc.exitCode = 0
           /\ proc.stdoutOctets = proc.stdin
           /\ proc.stdout = <<>>

\* C11: whenever loading a key file (new format, then the legacy fallback)
\* reports success, the loaded key file is filled: it holds an entry.
C11_SuccessfulParseIsFilled ==
    (obs.op = "loadFromFile" /\ obs.ret = TRUE) => isFilled(loaded)

(***************************************************************************)
(* Key names (src/key.ts).  A name is a JavaScript string: the sequence of *)
(* its characters, each one UTF-16 unit here; Utf8Encode gives its octets. *)
(***************************************************************************)
\* /[\x00-\x1f\x7f\\\/\:]/ matches the character
isInvalidNameChar(c) == c <= 31 \/ c = 127 \/ c = 92 \/ c = 47 \/ c = 58

\* validateKeyName(keyName).valid
validateKeyName(keyName) ==
    /\ keyName # <<>>
    /\ Len(keyName) <= KEY_NAME_MAX_LEN
    /\ \A i \in 1..Len(keyName) : ~isInvalidNameChar(keyName[i])

\* Inputs: runs of 'k' or of U+00E9, alone or with one other character put
\* first or last.
RunLens == {0, 1, 2, 63, 64, 65, 127, 128, 129}

RunChars == {107, 233}

OddChars == {0, 31, 32, 47, 58, 92, 127, 128}

Run(c, n) == [i \in 1..n |-> c]

NameInputs ==
    {Run(c, n) : c \in RunChars, n \in RunLens}
        \cup {<<o>> \o Run(c, n) : o \in OddChars, c \in RunChars, n \in RunLens}
        \cup {Run(c, n) \o <<o>> : o \in OddChars, c \in RunChars, n \in RunLens}

\* A caller has a name to validate.
ChooseName(keyName) ==
    /\ nameCall.state \in {"none", "validated"}
    /\ nameCall' = [state |-> "chosen", keyName |-> keyName, valid |-> FALSE]
    /\ UNCHANGED outsideName

\* validateKeyName(keyName)
ValidateKeyName ==
    /\ nameCall.state = "chosen"
    /\ nameCall' = [nameCall EXCEPT !.state = "validated",
                                    !.valid = validateKeyName(nameCall.keyName)]
    /\ UNCHANGED outsideName

NameInit == KeyIdle /\ StreamIdle /\ MainIdle /\ NameIdle /\ CtrIdle /\ RepoIdle /\ LsIdle /\ CopIdle

NameNext ==
    \/ \E n \in NameInputs : ChooseName(n)
    \/ ValidateKeyName

SpecName == NameInit /\ [][NameNext]_vars

\* The key-name rule on the octets of a name: 1 to 128 octets, none of them
\* a control octet (0x00..0x1F, 0x7F), '/', '\' or ':'.
obeysNameRule(octets) ==
    /\ Len(octets) >= 1
    /\ Len(octets) <= 128
    /\ \A i \in 1..Len(octets) :
          /\ octets[i] > 31
          /\ octets[i] \notin {127, 47, 92, 58}

\* C13: validateKeyName(s) reports valid exactly when the octets of s obey
\* the key-name rule.
C13_ValidateKeyNameExact ==
    nameCall.state = "validated"
        => (nameCall.valid <=> obeysNameRule(Utf8Encode(nameCall.keyName)))

(***************************************************************************)
(* Paths (src/commands.ts).  A path is the sequence of its segments; a     *)
(* segment, like a name, is its sequence of characters.                    *)
(***************************************************************************)
\* ".git", "git-crypt", "keys", "default"
SegGit == <<46, 103, 105, 116>>

SegGitCrypt == <<103, 105, 116, 45, 99, 114, 121, 112, 116>>

SegKeys == <<107, 101, 121, 115>>

SegDefault == <<100, 101, 102, 97, 117, 108, 116>>

KeysDir == <<SegGit, SegGitCrypt, SegKeys>>

\* path.join's normalisation of one more segment: "" and "." vanish, ".."
\* removes the segment before it.
joinSegment(path, seg) ==
    IF seg = <<>> \/ seg = <<46>> THEN path
    ELSE IF seg = <<46, 46>> /\ path # <<>> /\ path[Len(path)] # <<46, 46>>
    THEN SubSeq(path, 1, Len(path) - 1)
    ELSE Append(path, seg)

\* path.join(path, str): str is split at '/'
RECURSIVE pathJoinFrom(_, _, _)
pathJoinFrom(path, seg, str) ==
    IF str = <<>> THEN joinSegment(path, seg)
    ELSE IF Head(str) = 47 THEN pathJoinFrom(joinSegment(path, seg), <<>>, Tail(str))
    ELSE pathJoinFrom(path, Append(seg, Head(str)), Tail(str))

pathJoin(path, str) == pathJoinFrom(path, <<>>, str)

\* getInternalKeyPath(keyName)
getInternalKeyPath(keyName) ==
    IF keyName # <<>> THEN pathJoin(KeysDir, keyName) ELSE Append(KeysDir, SegDefault)

\* A path that names a file directly inside the keys directory.
isDirectChildOfKeysDir(path) == Len(path) = 4 /\ SubSeq(path, 1, 3) = KeysDir

\* C12: every key file that the parser accepts has no name or a name that
\* obeys the key-name rule, and the internal key path derived from the name
\* is a direct child of the keys directory.
C12_AcceptedNameIsSafe ==
    (IsLoad /\ obs.ret = TRUE)
        => /\ loaded.keyName = <<>> \/ obeysNameRule(Utf8Encode(loaded.keyName))
           /\ isDirectChildOfKeysDir(getInternalKeyPath(getKeyName(loaded)))

\* The object a key-file operation acted on, as it is now.
target == IF obs.which = "kf" THEN kf ELSE loaded

AllZero(buffer) == \A i \in 1..Len(buffer) : buffer[i] = 0

\* C14: after destroy() the key file is empty, and in every entry it held
\* the cipher key (32 octets) and the MAC key (64 octets) are all zero.
C14_DestroyWipesAndEmpties ==
    obs.op = "destroy"
        => /\ isEmpty(target)
           /\ DOMAIN obs.wiped = DOMAIN obs.pre.entries
           /\ \A v \in DOMAIN obs.wiped :
                 /\ Len(obs.wiped[v].aesKey) = AES_KEY_LEN
                 /\ Len(obs.wiped[v].hmacKey) = HMAC_KEY_LEN
                 /\ AllZero(obs.wiped[v].aesKey)
                 /\ AllZero(obs.wiped[v].hmacKey)

\* destroy() of a loaded key file that held two entries with non-zero keys
C14_Witness ==
    /\ obs.op = "destroy"
    /\ obs.which = "loaded"
    /\ Cardinality(DOMAIN obs.pre.entries) = 2
    /\ \A v \in DOMAIN obs.pre.entries : ~AllZero(obs.pre.entries[v].aesKey)
    /\ isEmpty(loaded)

(***************************************************************************)
(* AesCtrEncryptor as an object (src/crypto.ts).  byteCounter is a         *)
(* JavaScript number that can pass 2^32; it is kept here in three parts,   *)
(* byteCounter = (hi * 65536 + lo) * 16 + off, with lo < 65536, off < 16.  *)
(***************************************************************************)
\* MAX_CRYPT_BYTES = 0x100000000 * 16, as the hi part it starts at
MAX_CRYPT_BYTES_HI == 65536

ByteCounterZero == [hi |-> 0, lo |-> 0, off |-> 0]

\* this.byteCounter++
byteCounterInc(c) ==
    IF c.off < BLOCK_LEN - 1 THEN [c EXCEPT !.off = @ + 1]
    ELSE IF c.lo < 65535 THEN [c EXCEPT !.off = 0, !.lo = @ + 1]
    ELSE [hi |-> c.hi + 1, lo |-> 0, off |-> 0]

\* this.byteCounter >= AesCtrEncryptor.MAX_CRYPT_BYTES
byteCounterAtLimit(c) == c.hi >= MAX_CRYPT_BYTES_HI

\* A plausible slip: the block number stored low octet first.
storeBe32BlockNumberLittleEndian(c) ==
    << c.lo % 256, (c.lo \div 256) % 256, c.hi % 256, (c.hi \div 256) % 256 >>

\* storeBe32 of blockNumber = Math.floor(byteCounter / 16): >>> keeps the low
\* 32 bits of the number
storeBe32BlockNumber(c) ==
    << (c.hi \div 256) % 256, c.hi % 256, (c.lo \div 256) % 256, c.lo % 256 >>

\* new AesCtrEncryptor(key, nonce)
NewAesCtrEncryptor(key, nonce) ==
    [key |-> key, ctrValue |-> nonce \o Zeros(BLOCK_LEN - NONCE_LEN),
     pad |-> Zeros(BLOCK_LEN), byteCounter |-> ByteCounterZero]

\* One turn of the loop of process(): the encryptor afterwards, the octet
\* written to output[i], and whether the limit error is thrown after it.
processOctet(e, octet) ==
    LET c == e.byteCounter
        ctrValue == IF c.off = 0
                    THEN SubSeq(e.ctrValue, 1, NONCE_LEN) \o storeBe32BlockNumber(c)
                    ELSE e.ctrValue
        pad == IF c.off = 0 THEN AesEcbEncrypt(e.key, ctrValue) ELSE e.pad
        next == byteCounterInc(c)
    IN [enc |-> [e EXCEPT !.ctrValue = ctrValue, !.pad = pad, !.byteCounter = next],
        out |-> BitXor(octet, pad[c.off + 1]),
        at |-> c,
        threw |-> byteCounterAtLimit(next)]

\* process(input, output, length) from turn i on: the loop stops at a throw.
\* `written` lists, for each octet written to output, the byteCounter it
\* was written at.
RECURSIVE processLoop(_, _, _, _, _, _)
processLoop(e, input, i, length, output, written) ==
    IF i > length THEN [enc |-> e, output |-> output, written |-> written, threw |-> FALSE]
    ELSE LET r == processOctet(e, input[i]) IN
         IF r.threw
         THEN [enc |-> r.enc, output |-> Append(output, r.out),
               written |-> Append(written, r.at), threw |-> TRUE]
         ELSE processLoop(r.enc, input, i + 1, length, Append(output, r.out),
                          Append(written, r.at))

\* encryptor.process(input, output, length)
AesCtrEncryptor_process(e, input, length) == processLoop(e, input, 1, length, <<>>, <<>>)

\* Bound: process() calls made on an encryptor after it has thrown the
\* limit error.
MaxCallsAfterLimit == 2

\* Inputs of the counter-mode scenario.
CtrPlainLens == {0, 1, 17, 33}

CallLens == {1, 16, 17}

\* The byteCounter of an encryptor that has processed 2^32 - 2 whole blocks.
FarByteCounter == [hi |-> 65535, lo |-> 65534, off |-> 0]

\* An encryptor and a decryptor are constructed with the same key and nonce.
NewPair(n, seed, nonce) ==
    /\ ctr.state = "none"
    /\ ctr' = [NoCtr EXCEPT !.state = "ready", !.plain = PlainBytes(n),
                            !.enc = NewAesCtrEncryptor(KeyBytes(seed, AES_KEY_LEN), nonce),
                            !.dec = NewAesCtrEncryptor(KeyBytes(seed, AES_KEY_LEN), nonce)]
    /\ UNCHANGED outsideCtr

\* A long run of process() calls on whole blocks, output discarded, takes a
\* new encryptor to FarByteCounter: ctrValue and pad are those of the last
\* block processed, FarByteCounter less one block.
LongRun ==
    /\ ctr.state = "ready"
    /\ ~ctr.long
    /\ ctr.encCalls = 0
    /\ LET lastBlock == [FarByteCounter EXCEPT !.lo = @ - 1]
           ctrValue == SubSeq(ctr.enc.ctrValue, 1, NONCE_LEN) \o storeBe32BlockNumber(lastBlock)
       IN ctr' = [ctr EXCEPT !.long = TRUE,
                             !.enc = [@ EXCEPT !.ctrValue = ctrValue,
                                               !.pad = AesEcbEncrypt(ctr.enc.key, ctrValue),
                                               !.byteCounter = FarByteCounter]]
    /\ UNCHANGED outsideCtr

\* encryptor.process(input, output, length) on the next `length` octets of the
\* plaintext; a call that throws hands the caller no output.  encCalls and
\* decCalls count calls as 0, 1, many.
EncProcess(length) ==
    /\ ctr.state = "ready"
    /\ length <= Len(ctr.plain) - ctr.sent
    /\ byteCounterAtLimit(ctr.enc.byteCounter) => ctr.afterLimit < MaxCallsAfterLimit
    /\ LET input == SubSeq(ctr.plain, ctr.sent + 1, ctr.sent + length)
           r == AesCtrEncryptor_process(ctr.enc, input, length)
       IN ctr' = [ctr EXCEPT
                    !.enc = r.enc,
                    !.encCalls = Min(@ + 1, 2),
                    !.afterLimit = IF byteCounterAtLimit(ctr.enc.byteCounter) THEN @ + 1 ELSE @,
                    !.sent = IF r.threw THEN @ ELSE @ + length,
                    !.cipher = IF r.threw THEN @ ELSE @ \o r.output,
                    !.last = [who |-> "enc", threw |-> r.threw, output |-> r.output,
                              written |-> r.written]]
    /\ UNCHANGED outsideCtr

\* decryptor.process(input, output, length) on the next `length` octets of the
\* ciphertext produced so far.
DecProcess(length) ==
    /\ ctr.state = "ready"
    /\ ~ctr.long
    /\ length <= Len(ctr.cipher) - ctr.taken
    /\ LET input == SubSeq(ctr.cipher, ctr.taken + 1, ctr.taken + length)
           r == AesCtrEncryptor_process(ctr.dec, input, length)
       IN ctr' = [ctr EXCEPT
                    !.dec = r.enc,
                    !.decCalls = Min(@ + 1, 2),
                    !.taken = @ + length,
                    !.decrypted = @ \o r.output,
                    !.last = [who |-> "dec", threw |-> r.threw, output |-> r.output,
                              written |-> r.written]]
    /\ UNCHANGED outsideCtr

CtrInit == KeyIdle /\ StreamIdle /\ MainIdle /\ NameIdle /\ CtrIdle /\ RepoIdle /\ LsIdle /\ CopIdle

CtrNext ==
    \/ \E n \in CtrPlainLens, s \in Seeds, nonce \in Nonces : NewPair(n, s, nonce)
    \/ LongRun
    \/ \E n \in CallLens : EncProcess(n)
    \/ \E n \in CallLens : DecProcess(n)

SpecCtr == CtrInit /\ [][CtrNext]_vars

\* The counter block of stream position n: nonce || big-endian(floor(n / 16))
counterBlock(nonce, n) ==
    nonce \o << 0, 0, ((n \div 16) \div 256) % 256, (n \div 16) % 256 >>

\* The keystream octet of stream position n (n < 2^20 here)
keystreamOctet(key, nonce, n) == AesEcbEncrypt(key, counterBlock(nonce, n))[(n % 16) + 1]

\* C15: with an encryptor and a fresh decryptor of the same key and nonce,
\* however the octets are split over process() calls, ciphertext octet n is
\* plaintext octet n xor the keystream octet of (key, nonce, n), blocks
\* counted from 0, and what the decryptor returns is the plaintext.
C15_CtrRoundTripAnySplit ==
    (ctr.state = "ready" /\ ~ctr.long)
        => LET key == ctr.enc.key
               nonce == SubSeq(ctr.enc.ctrValue, 1, NONCE_LEN)
           IN /\ Len(ctr.cipher) = ctr.sent
              /\ \A i \in 1..Len(ctr.cipher) :
                    ctr.cipher[i] = BitXor(ctr.plain[i], keystreamOctet(key, nonce, i - 1))
              /\ ctr.decrypted = SubSeq(ctr.plain, 1, ctr.taken)
              /\ ~ctr.last.threw

\* 33 octets went through in several calls on each side, split differently
\* (the decryptor's last call took 16 octets ending at octet 33), and came
\* back whole.
C15_Witness ==
    /\ ctr.state = "ready"
    /\ ~ctr.long
    /\ Len(ctr.plain) = 33
    /\ ctr.decrypted = ctr.plain
    /\ ctr.encCalls = 2
    /\ ctr.decCalls = 2
    /\ ctr.last.who = "dec"
    /\ Len(ctr.last.output) = 16
    /\ ctr.cipher # ctr.plain

\* C16: the encryptor never writes an output octet under a block index of
\* 2^32 or more, and once the octets put through it reach the limit the call
\* ends in the limit error.
C16_BlockIndexNeverWraps ==
    ctr.state = "ready"
        => /\ \A i \in 1..Len(ctr.last.written) :
                 ~byteCounterAtLimit(ctr.last.written[i])
           /\ byteCounterAtLimit(ctr.enc.byteCounter) => ctr.last.threw

(***************************************************************************)
(* The lifecycle commands (src/commands.ts) in a repository.  A command    *)
(* line word is its sequence of characters; a file system is a function    *)
(* from paths to file contents; work-tree files are numbered.              *)
(***************************************************************************)
\* GIT_CHECKOUT_BATCH_SIZE
GIT_CHECKOUT_BATCH_SIZE == 100

\* "-k", "--key-name"
ArgK == <<45, 107>>

ArgKeyName == <<45, 45, 107, 101, 121, 45, 110, 97, 109, 101>>

\* A plausible slip: the test answers for the keys directory, not the file.
fileExistsParent(files, path) == SubSeq(path, 1, Len(path) - 1) \in DOMAIN files

\* fileExists(filePath)
fileExists(files, path) == path \in DOMAIN files

\* fs write of a whole file
writeFile(files, path, content) == MapSet(files, path, content)

\* removeFile(filePath): a missing file is ignored
removeFile(files, path) == [p \in DOMAIN files \ {path} |-> files[p]]

\* getAttributeName(keyName): "git-crypt-" + keyName, or "git-crypt"
getAttributeName(keyName) ==
    IF keyName # <<>> THEN SegGitCrypt \o <<45>> \o keyName ELSE SegGitCrypt

\* The git configuration is the set of its settings <<section, name, key>>.
\* The three filter settings configureGitFilters makes
filterSettings(attributeName) ==
    {<<"filter", attributeName, key>> : key \in {"smudge", "clean", "required"}}

\* gitHasConfig(name)
gitHasConfig(config, setting) == setting \in config

\* gitDeconfig(name): git config --remove-section
gitDeconfig(config, section, attributeName) ==
    {c \in config : ~(c[1] = section /\ c[2] = attributeName)}

\* configureGitFilters(keyName): smudge, clean, required and textconv are set
configureGitFilters(config, keyName) ==
    config \cup filterSettings(getAttributeName(keyName))
           \cup {<<"diff", getAttributeName(keyName), "textconv">>}

\* deconfigureGitFilters without its second half.
deconfigureGitFiltersFilterOnly(config, keyName) ==
    IF \E c \in filterSettings(getAttributeName(keyName)) : gitHasConfig(config, c)
    THEN gitDeconfig(config, "filter", getAttributeName(keyName))
    ELSE config

\* deconfigureGitFilters(keyName): the filter section is removed if smudge,
\* clean or required is set, the diff section if textconv is set
deconfigureGitFilters(config, keyName) ==
    LET attributeName == getAttributeName(keyName)
        config1 == IF \E c \in filterSettings(attributeName) : gitHasConfig(config, c)
                   THEN gitDeconfig(config, "filter", attributeName)
                   ELSE config
    IN  IF gitHasConfig(config1, <<"diff", attributeName, "textconv">>)
        THEN gitDeconfig(config1, "diff", attributeName)
        ELSE config1

\* The argument loop of init and lock: -k / --key-name takes the next word
\* (none when it is the last word); any other word is an error.
RECURSIVE parseKeyNameArgs(_, _, _)
parseKeyNameArgs(args, i, keyName) ==
    IF i > Len(args) THEN [ok |-> TRUE, keyName |-> keyName]
    ELSE IF args[i] = ArgK \/ args[i] = ArgKeyName
    THEN parseKeyNameArgs(args, i + 2, IF i + 1 <= Len(args) THEN args[i + 1] ELSE <<>>)
    ELSE [ok |-> FALSE, keyName |-> keyName]

\* What a command hands back: the repository afterwards, the exit status
\* main returns, the CommandError thrown ("none" if none), and what it
\* invoked, in order.
outcome(r, exitCode, error, log) ==
    [repo |-> r, exitCode |-> exitCode, error |-> error, log |-> log]

event(ev, path, batch) == [ev |-> ev, path |-> path, batch |-> batch]

\* init(args); `seed` is what randomBytes gives keyFile.generate()
init(r, args, seed) ==
    LET parsed == parseKeyNameArgs(args, 1, <<>>)
        keyName == parsed.keyName
        internalKeyPath == getInternalKeyPath(keyName)
        keyFile == add(setKeyName(NewKeyFile, keyName), MakeEntry(FORMAT_VERSION, seed))
    IN  IF ~parsed.ok THEN outcome(r, 1, "init takes no arguments", <<>>)
        ELSE IF keyName # <<>> /\ ~validateKeyName(keyName)
        THEN outcome(r, 1, "invalid key name", <<>>)
        ELSE IF fileExists(r.files, internalKeyPath)
        THEN outcome(r, 1, "already initialized", <<>>)
        ELSE outcome([r EXCEPT !.files = writeFile(@, internalKeyPath, store(keyFile)),
                               !.config = configureGitFilters(@, keyName)],
                     0, "none",
                     << event("storeToFile", internalKeyPath, <<>>),
                        event("configure", <<getAttributeName(keyName)>>, <<>>) >>)

\* A path given on the command line, relative to the repository root
argPath(word) == pathJoin(<<>>, word)

\* keygen(args)
keygen(r, args, seed) ==
    IF Len(args) # 1 THEN outcome(r, 1, "keygen takes exactly one argument", <<>>)
    ELSE LET keyFile == add(NewKeyFile, MakeEntry(FORMAT_VERSION, seed)) IN
         outcome([r EXCEPT !.files = writeFile(@, argPath(args[1]), store(keyFile))],
                 0, "none", << event("storeToFile", argPath(args[1]), <<>>) >>)

\* The octets fs.readFileSync gives loadFromFile, or NoFile
readFile(files, path) == IF path \in DOMAIN files THEN files[path] ELSE NoFile

\* exportKey(args): keyName is never set, so the default key is the one read
exportKey(r, args) ==
    IF Len(args) # 1 THEN outcome(r, 1, "export-key takes exactly one argument", <<>>)
    ELSE LET keyFilePath == argPath(args[1])
             internalKeyPath == getInternalKeyPath(<<>>)
             loading == loadFromFile(NewKeyFile, readFile(r.files, internalKeyPath))
         IN  IF ~fileExists(r.files, internalKeyPath)
             THEN outcome(r, 1, "not configured", <<>>)
             ELSE IF ~loading.ret THEN outcome(r, 1, "unable to read key", <<>>)
             ELSE outcome([r EXCEPT !.files = writeFile(@, keyFilePath, store(loading.kf))],
                          0, "none", << event("storeToFile", keyFilePath, <<>>) >>)

\* getEncryptedFiles(keyName): the tracked files whose filter attribute is
\* the key's attribute name, in git ls-files order
getEncryptedFiles(r, keyName) ==
    IF getAttributeName(keyName) \in DOMAIN r.tracked
    THEN r.tracked[getAttributeName(keyName)] ELSE <<>>

\* status(args)
status(r, args) ==
    outcome(r, 0, "none",
            << event("list", <<getAttributeName(<<>>)>>, getEncryptedFiles(r, <<>>)) >>)

\* gitCheckout with each batch running one path into the next batch.
RECURSIVE gitCheckoutFromOverlapping(_, _, _, _, _)
gitCheckoutFromOverlapping(files, i, invoked, failAt, log) ==
    IF i >= Len(files) THEN [ok |-> TRUE, log |-> log]
    ELSE LET batch == Slice(files, i, Min(i + GIT_CHECKOUT_BATCH_SIZE + 1, Len(files)))
             log1 == Append(log, event("checkout", <<>>, batch))
         IN  IF invoked + 1 = failAt THEN [ok |-> FALSE, log |-> log1]
             ELSE gitCheckoutFromOverlapping(files, i + GIT_CHECKOUT_BATCH_SIZE,
                                             invoked + 1, failAt, log1)

\* gitCheckout(files) from index i (0-based): one git checkout per batch;
\* the invocation numbered failAt exits non-zero (failAt = 0: none does).
RECURSIVE gitCheckoutFrom(_, _, _, _, _)
gitCheckoutFrom(files, i, invoked, failAt, log) ==
    IF i >= Len(files) THEN [ok |-> TRUE, log |-> log]
    ELSE LET batch == Slice(files, i, Min(i + GIT_CHECKOUT_BATCH_SIZE, Len(files)))
             log1 == Append(log, event("checkout", <<>>, batch))
         IN  IF invoked + 1 = failAt THEN [ok |-> FALSE, log |-> log1]
             ELSE gitCheckoutFrom(files, i + GIT_CHECKOUT_BATCH_SIZE, invoked + 1,
                                  failAt, log1)

gitCheckout(files, failAt) == gitCheckoutFrom(files, 0, 0, failAt, <<>>)

\* The end of unlock and lock: touch every file (one event for the loop
\* over the files), check them out, report.
touchAndCheckout(r, files, failAt, log) ==
    LET touches == << event("touch", <<>>, files) >>
        checkout == gitCheckout(files, failAt)
    IN  IF checkout.ok
        THEN outcome(r, 0, "none", log \o touches \o checkout.log)
        ELSE outcome(r, 1, "git checkout failed", log \o touches \o checkout.log)

\* The word "-" (standard input)
ArgStdin == <<45>>

\* The loading loop looking at the first key file only
unlockLoadErrorFirstOnly(r, args, i) ==
    IF i > Len(args) THEN "none"
    ELSE IF args[i] = ArgStdin THEN "reading from stdin not supported"
    ELSE IF ~loadFromFile(NewKeyFile, readFile(r.files, argPath(args[i]))).ret
    THEN "unable to read key file"
    ELSE "none"

\* unlock's loading loop: the error of the first argument that is "-" or
\* that loadFromFile cannot read, "none" if every key file loads
RECURSIVE unlockLoadError(_, _, _)
unlockLoadError(r, args, i) ==
    IF i > Len(args) THEN "none"
    ELSE IF args[i] = ArgStdin THEN "reading from stdin not supported"
    ELSE IF ~loadFromFile(NewKeyFile, readFile(r.files, argPath(args[i]))).ret
    THEN "unable to read key file"
    ELSE unlockLoadError(r, args, i + 1)

\* What goes wrong while unlock installs the key files: nothing, or for the
\* key file numbered `at` storeToFile fails, or the first or the last
\* git config of configureGitFilters exits non-zero.
NoFault == [at |-> 0, step |-> "none"]

\* configureGitFilters(keyName) with the git config numbered by `step` failing:
\* the settings made before it stay
configureGitFiltersUpTo(config, keyName, step) ==
    IF step = "configureFilter" THEN config
    ELSE config \cup filterSettings(getAttributeName(keyName))

\* unlock's installing loop over the loaded key files, in argument order:
\* store the key file at its internal path, configure its filters, collect
\* its encrypted files; the first failure ends the loop with its error
RECURSIVE unlockInstall(_, _, _, _, _, _)
unlockInstall(r, args, i, log, allEncryptedFiles, fault) ==
    IF i > Len(args)
    THEN [repo |-> r, log |-> log, allEncryptedFiles |-> allEncryptedFiles,
          error |-> "none"]
    ELSE LET keyFile == loadFromFile(NewKeyFile, readFile(r.files, argPath(args[i]))).kf
             keyName == getKeyName(keyFile)
             internalKeyPath == getInternalKeyPath(keyName)
             stored == [r EXCEPT !.files = writeFile(@, internalKeyPath, store(keyFile))]
             r1 == [stored EXCEPT !.config = configureGitFilters(@, keyName)]
         IN  IF fault.at = i /\ fault.step = "storeToFile"
             THEN [repo |-> r,
                   log |-> Append(log, event("storeToFileFailed", internalKeyPath, <<>>)),
                   allEncryptedFiles |-> allEncryptedFiles,
                   error |-> "unable to write key file"]
             ELSE IF fault.at = i
             THEN [repo |-> [stored EXCEPT
                               !.config = configureGitFiltersUpTo(@, keyName, fault.step)],
                   log |-> log \o << event("storeToFile", internalKeyPath, <<>>),
                                     event("configureFailed",
                                           <<getAttributeName(keyName)>>, <<>>) >>,
                   allEncryptedFiles |-> allEncryptedFiles,
                   error |-> "git config failed"]
             ELSE unlockInstall(r1, args, i + 1,
                      log \o << event("storeToFile", internalKeyPath, <<>>),
                                event("configure", <<getAttributeName(keyName)>>, <<>>),
                                event("list", <<getAttributeName(keyName)>>,
                                      getEncryptedFiles(r1, keyName)) >>,
                      allEncryptedFiles \o getEncryptedFiles(r1, keyName), fault)

\* After the installing loop: its error, or touch and checkout
unlockFinish(installed, failAt) ==
    IF installed.error # "none"
    THEN outcome(installed.repo, 1, installed.error, installed.log)
    ELSE touchAndCheckout(installed.repo, installed.allEncryptedFiles, failAt,
                          installed.log)

\* unlock that undoes the installed keys when a later one fails
unlockRollback(r, args, failAt, fault) ==
    IF r.dirty THEN outcome(r, 1, "working directory not clean", <<>>)
    ELSE IF Len(args) = 0 THEN outcome(r, 1, "GPG key decryption not supported", <<>>)
    ELSE IF unlockLoadError(r, args, 1) # "none"
    THEN outcome(r, 1, unlockLoadError(r, args, 1), <<>>)
    ELSE CHOOSE o \in {IF installed.error # "none"
                       THEN outcome(r, 1, installed.error, installed.log)
                       ELSE unlockFinish(installed, failAt) :
                           installed \in {unlockInstall(r, args, 1, <<>>, <<>>, fault)}} :
             TRUE

\* unlock(args); failAt numbers the git checkout invocation that fails
unlock(r, args, failAt, fault) ==
    IF r.dirty THEN outcome(r, 1, "working directory not clean", <<>>)
    ELSE IF Len(args) = 0 THEN outcome(r, 1, "GPG key decryption not supported", <<>>)
    ELSE IF unlockLoadError(r, args, 1) # "none"
    THEN outcome(r, 1, unlockLoadError(r, args, 1), <<>>)
    ELSE CHOOSE o \in {unlockFinish(installed, failAt) :
                           installed \in {unlockInstall(r, args, 1, <<>>, <<>>, fault)}} :
             TRUE

\* lock(args)
lock(r, args, failAt) ==
    LET parsed == parseKeyNameArgs(args, 1, <<>>)
        keyName == parsed.keyName
        internalKeyPath == getInternalKeyPath(keyName)
    IN  IF ~parsed.ok THEN outcome(r, 1, "unexpected argument", <<>>)
        ELSE IF keyName # <<>> /\ ~validateKeyName(keyName)
        THEN outcome(r, 1, "invalid key name", <<>>)
        ELSE IF r.dirty THEN outcome(r, 1, "working directory not clean", <<>>)
        ELSE IF ~fileExists(r.files, internalKeyPath)
        THEN outcome(r, 1, "not configured", <<>>)
        ELSE touchAndCheckout(
                 [r EXCEPT !.files = removeFile(@, internalKeyPath),
                           !.config = deconfigureGitFilters(@, keyName)],
                 getEncryptedFiles(r, keyName), failAt,
                 << event("list", <<getAttributeName(keyName)>>,
                          getEncryptedFiles(r, keyName)),
                    event("removeFile", internalKeyPath, <<>>),
                    event("deconfigure", <<getAttributeName(keyName)>>, <<>>) >>)

(***************************************************************************)
(* The repository scenario: a clone in which two key files received from   *)
(* elsewhere lie in the working directory (k1 holds a default key, k2 a    *)
(* key named "w", d the first 40 octets of a key file); the user edits and *)
(* stashes, and runs the lifecycle                                         *)
(* commands with well-formed and malformed argument lists.  Tracked paths  *)
(* are numbered; `tracked` gives, per filter attribute, the paths          *)
(* git ls-files reports.                                                   *)
(***************************************************************************)
\* "w", "k1", "k2", "o", "m", "d", "a/b"
WordW == <<119>>
WordK1 == <<107, 49>>
WordK2 == <<107, 50>>
WordOut == <<111>>
WordMissing == <<109>>
WordDamaged == <<100>>
WordBadName == <<97, 47, 98>>

PathRange(first, n) == [i \in 1..n |-> first + i - 1]

\* How many paths carry the default key's attribute and the attribute of "w"
TrackedCounts == {<<0, 0>>, <<101, 0>>, <<100, 151>>}

Trackeds ==
    {[attr \in {getAttributeName(<<>>), getAttributeName(WordW)} |->
         IF attr = getAttributeName(<<>>) THEN PathRange(1, c[1])
         ELSE PathRange(1001, c[2])] : c \in TrackedCounts}

ReceivedKeyFiles ==
    writeFile(writeFile(writeFile(<<>>, argPath(WordK1),
                                  store(add(NewKeyFile, MakeEntry(FORMAT_VERSION, 1)))),
                        argPath(WordK2),
                        store(add(setKeyName(NewKeyFile, WordW),
                                  MakeEntry(FORMAT_VERSION, 2)))),
              argPath(WordDamaged),
              SubSeq(store(add(NewKeyFile, MakeEntry(FORMAT_VERSION, 1))), 1, 40))

InitArgs == {<<>>, <<ArgKeyName, WordW>>, <<ArgK>>, <<WordW>>, <<ArgK, WordBadName>>}
KeygenArgs == {<<WordOut>>, <<>>}
ExportArgs == {<<WordOut>>, <<ArgK, WordW, WordOut>>, <<WordOut, ArgKeyName, WordW>>, <<>>}
UnlockArgs == {<<>>, <<WordK1>>, <<WordK2>>, <<WordK1, WordK2>>, <<WordMissing>>,
               <<WordK1, WordDamaged>>, <<ArgStdin>>}

\* The command lines of UnlockArgs whose key files all load
unlockLoadErrorFree(args) ==
    args # <<>> /\ \A i \in 1..Len(args) : args[i] \notin {WordMissing, WordDamaged, ArgStdin}
LockArgs == {<<>>, <<ArgK, WordW>>, <<WordW>>}
FailAts == {0, 1, 3}
RepoSeeds == {3}

\* One thing at most goes wrong in an unlock: a checkout, or one step of
\* installing the first or the second key file
InstallFaults ==
    {[at |-> at, step |-> step] : at \in {1, 2}, step \in {"storeToFile", "configureDiff"}}
        \cup {[at |-> 2, step |-> "configureFilter"]}

\* The unlock runs: command lines that fail before installing, one key file
\* with a checkout that fails or not, two key files with a checkout or an
\* installing step that fails or not
UnlockRuns ==
    {[args |-> args, failAt |-> 0, fault |-> NoFault] :
        args \in {a \in UnlockArgs : unlockLoadErrorFree(a) = FALSE}}
    \cup {[args |-> args, failAt |-> failAt, fault |-> NoFault] :
            args \in {a \in UnlockArgs : unlockLoadErrorFree(a)}, failAt \in FailAts}
    \cup {[args |-> args, failAt |-> 0, fault |-> fault] :
            args \in {a \in UnlockArgs : unlockLoadErrorFree(a) /\ Len(a) = 2},
            fault \in InstallFaults}

RepoInit ==
    /\ KeyIdle /\ StreamIdle /\ MainIdle /\ NameIdle /\ CtrIdle /\ LsIdle /\ CopIdle
    /\ repo \in {[state |-> "open", dirty |-> FALSE, files |-> ReceivedKeyFiles,
                  config |-> {}, tracked |-> t] : t \in Trackeds}
    /\ run = NoRun

ran(command, args, failAt, fault, o) ==
    [command |-> command, args |-> args, failAt |-> failAt, fault |-> fault,
     exitCode |-> o.exitCode, error |-> o.error, pre |-> repo, log |-> o.log]

\* The user edits a tracked file, or commits/stashes the modifications
SetDirty(dirty) ==
    /\ repo.state = "open"
    /\ repo.dirty # dirty
    /\ repo' = [repo EXCEPT !.dirty = dirty]
    /\ UNCHANGED run
    /\ UNCHANGED outsideRepo

RunInit(args, seed) ==
    /\ repo.state = "open"
    /\ \E o \in {init(repo, args, seed)} :
          /\ repo' = o.repo
          /\ run' = ran("init", args, 0, NoFault, o)
    /\ UNCHANGED outsideRepo

RunKeygen(args, seed) ==
    /\ repo.state = "open"
    /\ \E o \in {keygen(repo, args, seed)} :
          /\ repo' = o.repo
          /\ run' = ran("keygen", args, 0, NoFault, o)
    /\ UNCHANGED outsideRepo

RunExportKey(args) ==
    /\ repo.state = "open"
    /\ \E o \in {exportKey(repo, args)} :
          /\ repo' = o.repo
          /\ run' = ran("export-key", args, 0, NoFault, o)
    /\ UNCHANGED outsideRepo

RunStatus(args) ==
    /\ repo.state = "open"
    /\ \E o \in {status(repo, args)} :
          /\ repo' = o.repo
          /\ run' = ran("status", args, 0, NoFault, o)
    /\ UNCHANGED outsideRepo

RunUnlock(args, failAt, fault) ==
    /\ repo.state = "open"
    /\ \E o \in {unlock(repo, args, failAt, fault)} :
          /\ repo' = o.repo
          /\ run' = ran("unlock", args, failAt, fault, o)
    /\ UNCHANGED outsideRepo

RunLock(args, failAt) ==
    /\ repo.state = "open"
    /\ \E o \in {lock(repo, args, failAt)} :
          /\ repo' = o.repo
          /\ run' = ran("lock", args, failAt, NoFault, o)
    /\ UNCHANGED outsideRepo

RepoNext ==
    \/ \E dirty \in BOOLEAN : SetDirty(dirty)
    \/ \E args \in InitArgs, seed \in RepoSeeds : RunInit(args, seed)
    \/ \E args \in KeygenArgs, seed \in RepoSeeds : RunKeygen(args, seed)
    \/ \E args \in ExportArgs : RunExportKey(args)
    \/ \E args \in {<<>>} : RunStatus(args)
    \/ \E u \in UnlockRuns : RunUnlock(u.args, u.failAt, u.fault)
    \/ \E args \in LockArgs, failAt \in FailAts :
          (failAt = 0 \/ parseKeyNameArgs(args, 1, <<>>).ok) /\ RunLock(args, failAt)

SpecRepo == RepoInit /\ [][RepoNext]_vars

\* C17: a lifecycle command (init, unlock, lock, export-key, keygen, status)
\* run while the working directory has modifications fails with the
\* working-directory-not-clean error, invokes nothing, and leaves every key
\* file and the filter configuration as they were.
C17_DirtyRejectsEveryOperation ==
    (run.command # "none" /\ run.pre.dirty)
        => /\ run.exitCode # 0
           /\ run.error = "working directory not clean"
           /\ run.log = <<>>
           /\ repo.files = run.pre.files
           /\ repo.config = run.pre.config

\* The key name a well-formed init command line asks for ('' = default)
initKeyName == parseKeyNameArgs(run.args, 1, <<>>).keyName

\* An init command line that is well formed and names a valid key or none
IsInitFor ==
    /\ run.command = "init"
    /\ parseKeyNameArgs(run.args, 1, <<>>).ok
    /\ initKeyName = <<>> \/ validateKeyName(initKeyName)

\* C18: init for key name N fails with the already-initialized error whenever
\* the internal key file for N exists, and then leaves every file and the
\* filter configuration unchanged; an init that succeeds found no key file
\* for N and leaves every key file installed before it as it was.
C18_InitNeverOverwrites ==
    IsInitFor
        => /\ getInternalKeyPath(initKeyName) \in DOMAIN run.pre.files
                => /\ run.exitCode # 0
                   /\ run.error = "already initialized"
                   /\ run.log = <<>>
                   /\ repo.files = run.pre.files
                   /\ repo.config = run.pre.config
           /\ run.exitCode = 0
                => /\ getInternalKeyPath(initKeyName) \notin DOMAIN run.pre.files
                   /\ \A p \in DOMAIN run.pre.files :
                         p \in DOMAIN repo.files /\ repo.files[p] = run.pre.files[p]

\* init -k w refused in a repository where unlock installed the key "w"
C18_Witness ==
    /\ IsInitFor
    /\ initKeyName = WordW
    /\ run.error = "already initialized"
    /\ getInternalKeyPath(WordW) \in DOMAIN run.pre.files
    /\ run.pre.files[getInternalKeyPath(WordW)] = run.pre.files[argPath(WordK2)]
    /\ repo.files = run.pre.files

\* What an export-key command line asks for: PATH alone, or PATH with
\* -k N / --key-name N before or after it
IsExportRequest ==
    /\ run.command = "export-key"
    /\ \/ Len(run.args) = 1
       \/ Len(run.args) = 3 /\ run.args[1] \in {ArgK, ArgKeyName}
       \/ Len(run.args) = 3 /\ run.args[2] \in {ArgK, ArgKeyName}

exportRequestName ==
    IF Len(run.args) = 1 THEN <<>>
    ELSE IF run.args[1] \in {ArgK, ArgKeyName} THEN run.args[2] ELSE run.args[3]

exportRequestPath ==
    IF Len(run.args) = 1 \/ run.args[2] \in {ArgK, ArgKeyName}
    THEN argPath(run.args[1]) ELSE argPath(run.args[3])

\* C19: export-key for key name N (the default key when no name is given)
\* fails if no key file is installed for N; otherwise it succeeds, the file
\* at PATH holds the octets of the installed key file for N, and the
\* installed key file is unchanged.
C19_ExportKeyWritesInstalledKey ==
    IsExportRequest
        => IF getInternalKeyPath(exportRequestName) \notin DOMAIN run.pre.files
           THEN run.exitCode # 0 /\ repo.files = run.pre.files
           ELSE /\ run.exitCode = 0
                /\ exportRequestPath \in DOMAIN repo.files
                /\ repo.files[exportRequestPath]
                       = run.pre.files[getInternalKeyPath(exportRequestName)]
                /\ repo.files[getInternalKeyPath(exportRequestName)]
                       = run.pre.files[getInternalKeyPath(exportRequestName)]

\* The events of the last command, by kind
IsCheckout(e) == e.ev = "checkout"

IsKeyStep(e) == e.ev \in {"storeToFile", "configure", "removeFile", "deconfigure"}

checkouts == SelectSeq(run.log, IsCheckout)

RECURSIVE concatBatches(_, _)
concatBatches(events, i) ==
    IF i > Len(events) THEN <<>> ELSE events[i].batch \o concatBatches(events, i + 1)

\* The collected path list of the last unlock or lock: the paths it touched,
\* in order
IsTouch(e) == e.ev = "touch"

collected == concatBatches(SelectSeq(run.log, IsTouch), 1)

\* The key names of the key files an unlock command line gives, in order
unlockKeyNames ==
    [i \in 1..Len(run.args) |->
        getKeyName(loadFromFile(NewKeyFile,
                                readFile(run.pre.files, argPath(run.args[i]))).kf)]

\* The paths git ls-files reported for each of these keys, one list after
\* the other
RECURSIVE trackedOf(_, _)
trackedOf(keyNames, i) ==
    IF i > Len(keyNames) THEN <<>>
    ELSE run.pre.tracked[getAttributeName(keyNames[i])] \o trackedOf(keyNames, i + 1)

\* An unlock or lock that got past its checks
IsUnlockAtWork ==
    run.command = "unlock" /\ run.log # <<>> /\ run.error \notin {"unable to write key file", "git config failed"}

IsLockAtWork == run.command = "lock" /\ run.log # <<>>

lockKeyName == parseKeyNameArgs(run.args, 1, <<>>).keyName

\* A checkout invocation failed: the one numbered failAt was reached
checkoutFailed == run.failAt >= 1 /\ Len(checkouts) >= run.failAt

\* C20: in unlock and lock every key file is installed (unlock) or removed
\* (lock), with its filters, before the first checkout is invoked; the
\* collected paths are those of the keys concerned; the checkout invocations
\* take between 1 and 100 paths each and, one after the other, make up the
\* collected list from its start, all of it when none fails; the first
\* invocation that fails is the last one and the command fails.
C20_CheckoutAfterKeysInBatches ==
    (IsUnlockAtWork \/ IsLockAtWork)
        => /\ \A i, j \in 1..Len(run.log) :
                  (IsCheckout(run.log[i]) /\ IsKeyStep(run.log[j])) => j < i
           /\ IsUnlockAtWork
                  => /\ \A i \in 1..Len(run.args) :
                         /\ run.log[3 * i - 2]
                                = event("storeToFile",
                                        getInternalKeyPath(unlockKeyNames[i]), <<>>)
                         /\ run.log[3 * i - 1].ev = "configure"
                         /\ getInternalKeyPath(unlockKeyNames[i]) \in DOMAIN repo.files
                     /\ collected = trackedOf(unlockKeyNames, 1)
           /\ IsLockAtWork
                  => /\ run.log[2] = event("removeFile",
                                           getInternalKeyPath(lockKeyName), <<>>)
                     /\ run.log[3].ev = "deconfigure"
                     /\ getInternalKeyPath(lockKeyName) \notin DOMAIN repo.files
                     /\ collected = trackedOf(<<lockKeyName>>, 1)
           /\ \A i \in 1..Len(checkouts) :
                  /\ Len(checkouts[i].batch) >= 1
                  /\ Len(checkouts[i].batch) <= GIT_CHECKOUT_BATCH_SIZE
           /\ Len(concatBatches(checkouts, 1)) <= Len(collected)
           /\ concatBatches(checkouts, 1)
                  = SubSeq(collected, 1, Len(concatBatches(checkouts, 1)))
           /\ IF checkoutFailed
              THEN /\ Len(checkouts) = run.failAt
                   /\ run.exitCode # 0
                   /\ run.error = "git checkout failed"
              ELSE /\ run.exitCode = 0
                   /\ concatBatches(checkouts, 1) = collected

\* unlock of the default key and the key "w" over 251 encrypted paths:
\* three checkouts, of 100, 100 and 51 paths, after both keys are installed
C20_Witness ==
    /\ IsUnlockAtWork
    /\ Len(run.args) = 2
    /\ Len(collected) = 251
    /\ Len(checkouts) = 3
    /\ Len(checkouts[3].batch) = 51
    /\ run.exitCode = 0

\* The key file unlock loaded from its i-th argument
unlockKeyFile(i) ==
    loadFromFile(NewKeyFile, readFile(run.pre.files, argPath(run.args[i]))).kf

\* An unlock that reached its installing loop
IsUnlockInstalling == run.command = "unlock" /\ run.log # <<>>

IsStore(e) == e.ev = "storeToFile"

\* An installing step of the last unlock failed
installFailed == run.fault.at >= 1 /\ run.fault.at <= Len(run.args)

\* C21: within one unlock the key files are stored in the order of the
\* arguments, each at the internal path of the name embedded in it; when
\* storing or configuring a key fails, unlock fails at that key: no later
\* key is stored, nothing is touched or checked out, and every key before it
\* is installed with its content and has its filter and diff configuration.
C21_UnlockInstallsInOrderNoRollback ==
    IsUnlockInstalling
        => LET stores == SelectSeq(run.log, IsStore) IN
           /\ Len(stores) <= Len(run.args)
           /\ \A i \in 1..Len(stores) :
                 stores[i].path = getInternalKeyPath(getKeyName(unlockKeyFile(i)))
           /\ ~installFailed => Len(stores) = Len(run.args)
           /\ installFailed
                 => /\ run.exitCode # 0
                    /\ Len(stores) = IF run.fault.step = "storeToFile"
                                     THEN run.fault.at - 1 ELSE run.fault.at
                    /\ \A i \in 1..Len(run.log) : ~IsTouch(run.log[i]) /\ ~IsCheckout(run.log[i])
                    /\ \A j \in 1..(run.fault.at - 1) :
                          LET path == getInternalKeyPath(getKeyName(unlockKeyFile(j)))
                              attr == getAttributeName(getKeyName(unlockKeyFile(j)))
                          IN  /\ path \in DOMAIN repo.files
                              /\ repo.files[path] = store(unlockKeyFile(j))
                              /\ filterSettings(attr) \subseteq repo.config
                              /\ <<"diff", attr, "textconv">> \in repo.config
                    /\ \A j \in (run.fault.at + 1)..Len(run.args) :
                          LET path == getInternalKeyPath(getKeyName(unlockKeyFile(j)))
                          IN  /\ path \in DOMAIN repo.files <=> path \in DOMAIN run.pre.files
                              /\ path \in DOMAIN repo.files
                                    => repo.files[path] = run.pre.files[path]

\* unlock k1 k2 in a fresh clone where storing the second key file fails:
\* the default key stays installed and configured, "w" is not installed
C21_Witness ==
    /\ IsUnlockInstalling
    /\ Len(run.args) = 2
    /\ run.fault = [at |-> 2, step |-> "storeToFile"]
    /\ run.pre.config = {}
    /\ getInternalKeyPath(<<>>) \notin DOMAIN run.pre.files
    /\ getInternalKeyPath(<<>>) \in DOMAIN repo.files
    /\ <<"filter", getAttributeName(<<>>), "smudge">> \in repo.config
    /\ getInternalKeyPath(WordW) \notin DOMAIN repo.files
    /\ run.exitCode = 1

\* Some key file on the unlock command line cannot be read or parsed
someKeyFileUnreadable ==
    \E i \in 1..Len(run.args) :
        ~loadFromFile(NewKeyFile, readFile(run.pre.files, argPath(run.args[i]))).ret

mainArgv == entryArgv(proc.entry, proc.argv)

mainArgs == slice1(mainArgv)

KnownCommands ==
    LifecycleCommands
        \cup {"help", "--help", "-h", "version", "--version", "-v", "clean", "smudge",
              "diff", "add-gpg-user", "rm-gpg-user", "ls-gpg-users", "migrate-key"}

\* The usage errors main can meet itself: no command, an unknown command,
\* help for an unknown topic
mainUsageError ==
    \/ mainArgs = <<>>
    \/ mainArgs[1] \notin KnownCommands
    \/ /\ mainArgs[1] \in {"help", "--help", "-h"}
       /\ Len(mainArgs) = 2
       /\ mainArgs[2] \notin LifecycleCommands

\* The last lifecycle command was given wrong arguments
wrongArguments ==
    \/ run.command = "init" /\ ~parseKeyNameArgs(run.args, 1, <<>>).ok
    \/ run.command = "lock" /\ ~parseKeyNameArgs(run.args, 1, <<>>).ok
    \/ run.command = "keygen" /\ Len(run.args) # 1
    \/ run.command = "export-key" /\ ~IsExportRequest

\* C23: main returns an exit status, which is 2 on a usage error (no
\* command, unknown command, unknown help topic, wrong arguments to a known
\* command), 1 on an operation error and 0 on success.
C23_ExitStatusClasses ==
    /\ proc.state \in {"returned", "exited"}
          => /\ proc.exitCode \in {0, 1, 2}
             /\ mainUsageError <=> proc.exitCode = 2
    /\ run.command # "none"
          => /\ run.exitCode \in {0, 1, 2}
             /\ wrongArguments <=> run.exitCode = 2
             /\ run.error = "none" <=> run.exitCode = 0

\* C30: through either entry point, the program run with the one argument
\* `version` prints the version and exits with status 0.
C30_VersionReachedThroughBothEntryPoints ==
    (proc.state = "exited" /\ typed = <<"version">>)
        => /\ proc.exitCode = 0
           /\ proc.stdout = << <<"version", VERSION>> >>
           /\ proc.stderr = <<>>

(***************************************************************************)
(* getEncryptedFiles (src/commands.ts): the index listing of               *)
(* git ls-files -csz is parsed, each name's filter attribute is asked from *)
(* git check-attr, and the names of regular files bound to the key's       *)
(* attribute are returned.  Strings are sequences of character codes.      *)
(***************************************************************************)
MaxIndex == 2

\* "100644", "100755", "120000" (symbolic link), "160000" (gitlink)
Mode100644 == <<49, 48, 48, 54, 52, 52>>
Mode100755 == <<49, 48, 48, 55, 53, 53>>
Mode120000 == <<49, 50, 48, 48, 48, 48>>
Mode160000 == <<49, 54, 48, 48, 48, 48>>

\* "unspecified", "unset", "set"
AttrUnspecified == <<117, 110, 115, 112, 101, 99, 105, 102, 105, 101, 100>>
AttrUnset == <<117, 110, 115, 101, 116>>
AttrSet == <<115, 101, 116>>

IGNORED_ATTRIBUTE_VALUES == {AttrUnspecified, AttrUnset, AttrSet}

\* One record of git ls-files -csz: <mode> SP <object-id> SP <stage> TAB <name> NUL
lsFilesRecord(e) == e.mode \o <<32>> \o <<97, 98>> \o <<32>> \o <<48>> \o <<9>> \o e.name \o <<0>>

RECURSIVE lsFilesOutput(_, _)
lsFilesOutput(index, i) ==
    IF i > Len(index) THEN <<>> ELSE lsFilesRecord(index[i]) \o lsFilesOutput(index, i + 1)

\* str.indexOf(ch, from), 0-based, -1 when absent
RECURSIVE indexOf(_, _, _)
indexOf(str, ch, from) ==
    IF from >= Len(str) THEN -1
    ELSE IF str[from + 1] = ch THEN from
    ELSE indexOf(str, ch, from + 1)

\* str.split('\0'): the pieces between the NULs, the last one included
RECURSIVE splitNul(_, _, _)
splitNul(str, i, piece) ==
    IF i > Len(str) THEN <<piece>>
    ELSE IF str[i] = 0 THEN <<piece>> \o splitNul(str, i + 1, <<>>)
    ELSE splitNul(str, i + 1, Append(piece, str[i]))

NonEmpty(record) == Len(record) > 0

\* The body of parseLsFilesOutput's loop for one record: the entry pushed,
\* or nothing when a space is missing
parseLsFilesRecord(record) ==
    LET firstSpace == indexOf(record, 32, 0)
        secondSpace == IF firstSpace = -1 THEN -1 ELSE indexOf(record, 32, firstSpace + 1)
        thirdSpace == IF secondSpace = -1 THEN -1 ELSE indexOf(record, 32, secondSpace + 1)
    IN  IF firstSpace = -1 \/ secondSpace = -1 \/ thirdSpace = -1 THEN <<>>
        ELSE << [mode |-> Slice(record, 0, firstSpace),
                 objectId |-> Slice(record, firstSpace + 1, secondSpace),
                 stage |-> Slice(record, secondSpace + 1, thirdSpace),
                 filename |-> Slice(record, thirdSpace + 1, Len(record))] >>

RECURSIVE parseLsFilesRecords(_, _)
parseLsFilesRecords(records, i) ==
    IF i > Len(records) THEN <<>>
    ELSE parseLsFilesRecord(records[i]) \o parseLsFilesRecords(records, i + 1)

\* parseLsFilesOutput(buffer)
parseLsFilesOutput(buffer) ==
    IF Len(buffer) = 0 THEN <<>>
    ELSE parseLsFilesRecords(SelectSeq(splitNul(buffer, 1, <<>>), NonEmpty), 1)

\* parseInt(mode, 8): the leading octal digits, -1 for NaN
RECURSIVE parseOctal(_, _, _)
parseOctal(str, i, acc) ==
    IF i > Len(str) \/ str[i] < 48 \/ str[i] > 55 THEN (IF i = 1 THEN -1 ELSE acc)
    ELSE parseOctal(str, i + 1, acc * 8 + (str[i] - 48))

\* isGitFileMode(mode): (parsed & 0o170000) === 0o100000
isGitFileMode(mode) ==
    LET parsed == parseOctal(mode, 1, 0)
    IN  parsed # -1 /\ (parsed \div 4096) % 16 = 8

\* isSignificantAttrValue(value)
isSignificantAttrValue(value) == Len(value) > 0 /\ value \notin IGNORED_ATTRIBUTE_VALUES

\* What git check-attr reports as the filter of a name: the value the index
\* entry of that name carries, "unspecified" for any other name
checkAttrFilter(index, filename) ==
    IF \E i \in 1..Len(index) : index[i].name = filename
    THEN index[CHOOSE i \in 1..Len(index) : index[i].name = filename].filter
    ELSE AttrUnspecified

\* getFileAttributesBatch(names).get(filename).filter
filterAttrOf(index, filename) ==
    IF isSignificantAttrValue(checkAttrFilter(index, filename))
    THEN checkAttrFilter(index, filename) ELSE <<>>

\* The loop of getEncryptedFiles over the parsed entries
RECURSIVE selectEncrypted(_, _, _, _)
selectEncrypted(index, entries, i, attributeName) ==
    IF i > Len(entries) THEN <<>>
    ELSE (IF isGitFileMode(entries[i].mode)
             /\ filterAttrOf(index, entries[i].filename) = attributeName
          THEN <<entries[i].filename>> ELSE <<>>)
         \o selectEncrypted(index, entries, i + 1, attributeName)

\* getEncryptedFiles(keyName) given the listing git ls-files wrote
getEncryptedFilesFromListing(index, lsOutput, keyName) ==
    selectEncrypted(index, parseLsFilesOutput(lsOutput), 1, getAttributeName(keyName))

\* Inputs: names "a", "b c" and "c"; filter values "git-crypt",
\* "git-crypt-w", "unspecified", "unset", "set" and "" 
LsNames == {<<97>>, <<98, 32, 99>>, <<99>>}

LsModes == {Mode100644, Mode100755, Mode120000, Mode160000}

LsFilters == {getAttributeName(<<>>), getAttributeName(WordW), AttrUnspecified, AttrUnset,
              AttrSet, <<>>}

LsInit ==
    /\ KeyIdle /\ StreamIdle /\ MainIdle /\ NameIdle /\ CtrIdle /\ RepoIdle /\ CopIdle
    /\ ls = [NoLs EXCEPT !.state = "open"]

\* git add: one more entry in the index
StageEntry(mode, name, filter) ==
    /\ ls.state = "open"
    /\ Len(ls.index) < MaxIndex
    /\ \A i \in 1..Len(ls.index) : ls.index[i].name # name
    /\ ls' = [ls EXCEPT !.index = Append(@, [mode |-> mode, name |-> name,
                                             filter |-> filter])]
    /\ UNCHANGED outsideLs

\* getEncryptedFiles(keyName) runs to its return
GetEncryptedFiles(keyName) ==
    /\ ls.state = "open"
    /\ \E lsOutput \in {lsFilesOutput(ls.index, 1)} :
          ls' = [ls EXCEPT !.state = "listed", !.keyName = keyName,
                           !.lsOutput = lsOutput,
                           !.encryptedFiles =
                               getEncryptedFilesFromListing(ls.index, lsOutput, keyName)]
    /\ UNCHANGED outsideLs

LsNext ==
    \/ \E mode \in LsModes, name \in LsNames, filter \in LsFilters :
          StageEntry(mode, name, filter)
    \/ \E keyName \in {<<>>, WordW} : GetEncryptedFiles(keyName)

SpecLs == LsInit /\ [][LsNext]_vars

\* The names the claim calls encrypted under the key: regular-file entries
\* whose filter attribute is the key's attribute name, in index order
RECURSIVE boundNames(_, _, _)
boundNames(index, i, attributeName) ==
    IF i > Len(index) THEN <<>>
    ELSE (IF index[i].mode \in {Mode100644, Mode100755} /\ index[i].filter = attributeName
          THEN <<index[i].name>> ELSE <<>>)
         \o boundNames(index, i + 1, attributeName)

\* C22: from a listing of NUL-terminated records
\* <mode> SP <object-id> SP <stage> TAB <name>, getEncryptedFiles(N) returns
\* exactly the names of the regular-file entries whose filter attribute is
\* the attribute name of N.
C22_EncryptedFilesExact ==
    ls.state = "listed"
        => ls.encryptedFiles = boundNames(ls.index, 1, getAttributeName(ls.keyName))

(***************************************************************************)
(* processStream with its error paths, on inputs of zero, one and two      *)
(* chunks: a file one octet longer than the high-water mark is read in two *)
(* pushes.  The event loop runs every pending callback, and a file read    *)
(* completes or fails, hence the fairness conditions.                      *)
(***************************************************************************)
LongLens == {0, 1, HighWaterMark + 1}

ProcessStreamInit ==
    /\ KeyIdle /\ MainIdle /\ NameIdle /\ CtrIdle /\ RepoIdle /\ LsIdle /\ CopIdle
    /\ \E n \in LongLens : disk = [NoDisk EXCEPT !["plain"] = PlainBytes(n)]
    /\ meta = NoMeta
    /\ job = NoJob

ProcessStreamNext ==
    \/ EncryptFile("cipher", 1, NonceBytes(1), NonceBytes(1))
    \/ DecryptFile("cipher")
    \/ Read
    \/ ProcessChunk
    \/ WriteCallback
    \/ EmitEnd
    \/ ProcessChunkAtEnd
    \/ InputError
    \/ WriteCallbackError
    \/ ProcessChunkThrows

SpecProcessStream ==
    /\ ProcessStreamInit
    /\ [][ProcessStreamNext]_vars
    /\ WF_vars(Read \/ InputError)
    /\ WF_vars(ProcessChunk \/ ProcessChunkThrows)
    /\ WF_vars(WriteCallback \/ WriteCallbackError)
    /\ WF_vars(EmitEnd)
    /\ WF_vars(ProcessChunkAtEnd)

Settled == job.state \in {"resolved", "rejected"}

\* Writes issued and not yet acknowledged
outstanding == Len(job.writes) - job.acked

\* The chunks handed to output.write follow one another in the input
writesInInputOrder ==
    \A i \in 1..Len(job.writes) - 1 :
        job.writes[i].offset + job.writes[i].length <= job.writes[i + 1].offset

ProcessStreamSafe ==
    /\ outstanding \in {0, 1}
    /\ job.hasWrite <=> outstanding = 1
    /\ writesInInputOrder
    /\ job.state = "resolved" => job.readableEnded /\ outstanding = 0
    /\ job.state = "rejected" <=> job.error # "none"

\* A settled promise keeps its outcome until the next call of processStream
SettledStays ==
    Settled => \/ job' = job
               \/ job'.state = "running" /\ job'.writes = <<>> /\ job'.acked = 0

\* C29: the promise of processStream settles exactly once: it resolves only
\* after the input has ended with every issued write acknowledged, at most
\* one write is outstanding at any time, chunks are written in input order,
\* the first input, write or crypto error rejects it, and under every
\* interleaving of the events it does settle.
C29_ProcessStreamSettlesOnce ==
    /\ []ProcessStreamSafe
    /\ [][SettledStays]_vars
    /\ (job.state = "running") ~> Settled

\* Both chunks of the long input written and acknowledged, promise resolved
C29_Witness ==
    /\ job.state = "resolved"
    /\ Len(job.writes) = 2
    /\ job.acked = 2

(***************************************************************************)
(* Coprocess (src/coprocess.ts) and its two callers in src/commands.ts.    *)
(* The child's standard input carries octets; its output is counted in     *)
(* chunks.  The parent's side follows the stream rules of Node.js: a pipe  *)
(* starts to flow on the tick after pipe(), a write to an ended stream is  *)
(* refused, a pipe pauses its source when the destination's write returns  *)
(* false and resumes it on 'drain', a readable emits 'end' only once its   *)
(* buffer is empty, and the child's 'close' follows its exit and the end   *)
(* of its output stream.                                                   *)
(***************************************************************************)
\* Chunks the kernel pipe of the child's output holds
PipeCapacity == 1

\* Chunks child.stdout buffers before it stops reading the pipe
StdoutHwm == 1

\* Chunks the stdout PassThrough holds before its write returns false
ProxyHwm == 1

\* Names written to the child's standard input
MaxNames == 2

\* One chunk more than pipe, child.stdout and proxy hold together
BigOutput == PipeCapacity + StdoutHwm + ProxyHwm + 1

\* Chunks `git ls-files` writes
OutputSizes == {0, 1, BigOutput}

\* The calls of getEncryptedFiles and of getFileAttributesBatch in order;
\* under "any" the calls come in any order, as a test or an error path
\* makes them.
scriptOf(caller) ==
    CASE caller = "getEncryptedFiles" ->
             <<"stdoutPipe", "spawn", "collectStream", "awaitCollect", "wait", "closeStdout">>
      [] caller = "getFileAttributesBatch" ->
             <<"stdinPipe", "stdoutPipe", "spawn", "writeBuffer", "closeStdin",
               "collectStream", "awaitCollect", "wait", "closeStdout", "closeStdin">>
      [] OTHER -> <<>>

MayCall(op) ==
    /\ cop.state = "new"
    /\ \/ cop.caller = "any"
       \/ cop.script # <<>> /\ Head(cop.script) = op

called(c) == IF c.caller = "any" THEN c ELSE [c EXCEPT !.script = Tail(@)]

CopInit ==
    /\ KeyIdle /\ StreamIdle /\ MainIdle /\ NameIdle /\ CtrIdle /\ RepoIdle /\ LsIdle
    /\ \E caller \in {"getEncryptedFiles", "getFileAttributesBatch", "any"},
          names \in 1..MaxNames :
          cop = [NoCop EXCEPT !.state = "new", !.caller = caller,
                              !.script = scriptOf(caller),
                              !.names = IF caller = "getFileAttributesBatch"
                                        THEN names ELSE 0]

\* connectStdinIfNeeded: the proxy is piped into child.stdin; the flow
\* starts on the next tick
connectStdinIfNeeded(c) ==
    IF c.spawned /\ c.stdinProxy = "open" /\ c.childStdin # "none"
    THEN [c EXCEPT !.stdinPiped = TRUE, !.stdinFlowTick = TRUE]
    ELSE c

\* child.stdout while it flows: each buffered chunk is emitted as 'data',
\* into the proxy when piped (the pipe pauses child.stdout when the proxy's
\* write returns false), to nobody otherwise; paused, it keeps what it has
\* buffered.  With end-of-file read and the buffer empty it emits 'end' and
\* closes, flowing or paused, and the pipe ends the proxy.
RECURSIVE flowStdout(_)
flowStdout(c) ==
    IF c.stdoutEnded THEN c
    ELSE IF c.stdoutFlowing /\ c.stdoutBuf > 0
    THEN flowStdout(IF c.stdoutPiped
                    THEN [c EXCEPT !.stdoutBuf = @ - 1, !.proxyOut = @ + 1,
                                   !.stdoutFlowing = c.proxyOut + 1 < ProxyHwm,
                                   !.needDrain = c.proxyOut + 1 >= ProxyHwm]
                    ELSE [c EXCEPT !.stdoutBuf = @ - 1])
    ELSE IF c.stdoutEof /\ c.stdoutBuf = 0
    THEN [c EXCEPT !.stdoutEnded = TRUE,
                   !.stdoutProxy = IF c.stdoutPiped /\ @ = "open" THEN "ended" ELSE @]
    ELSE c

\* connectStdoutIfNeeded: child.stdout is piped into the proxy, or resumed
\* when there is no proxy
connectStdoutIfNeeded(c) ==
    IF ~c.spawned THEN c
    ELSE IF c.stdoutProxy # "open" THEN flowStdout([c EXCEPT !.stdoutFlowing = TRUE])
    ELSE flowStdout([c EXCEPT !.stdoutPiped = TRUE, !.stdoutFlowing = TRUE])

\* stdinPipe()
StdinPipe ==
    /\ MayCall("stdinPipe")
    /\ ~cop.stdinClosed
    /\ cop.stdinProxy = "none"
    /\ cop' = called(connectStdinIfNeeded([cop EXCEPT !.stdinProxy = "open"]))
    /\ UNCHANGED outsideCop

\* stdoutPipe()
StdoutPipe ==
    /\ MayCall("stdoutPipe")
    /\ ~cop.stdoutClosed
    /\ cop.stdoutProxy = "none"
    /\ cop' = called(connectStdoutIfNeeded([cop EXCEPT !.stdoutProxy = "open"]))
    /\ UNCHANGED outsideCop

\* What child.stdin.write does with octets: queued for the child while the
\* stream is open, refused once end() was called
childStdinWrite(c, octets) ==
    IF c.childStdin = "open" THEN [c EXCEPT !.sockIn = @ \o octets] ELSE c

\* The proxy's 'data' reaching child.stdin: all it has buffered
forwardStdin(c) ==
    [childStdinWrite(c, c.proxyIn) EXCEPT !.proxyIn = <<>>, !.stdinFlowTick = FALSE]

\* A write to the stream stdinPipe() returned, awaited.  Before spawn the
\* octets stay in the proxy.  After spawn the write's callback runs after
\* the tick that starts the flow, so the octets have been handed to
\* child.stdin when the caller goes on.
WriteStdin(octets) ==
    /\ cop.stdinProxy = "open"
    /\ Len(cop.written) + Len(octets) <= MaxNames
    /\ LET c == [cop EXCEPT !.written = @ \o octets, !.proxyIn = @ \o octets]
       IN  cop' = called(IF c.spawned /\ c.childStdin # "none" THEN forwardStdin(c) ELSE c)
    /\ UNCHANGED outsideCop

\* The payload of getFileAttributesBatch: one octet stands for one name
payload(n) == [i \in 1..n |-> i]

WriteBuffer ==
    /\ MayCall("writeBuffer")
    /\ IF cop.caller = "any"
       THEN WriteStdin(<<Len(cop.written) + 1>>)
       ELSE WriteStdin(payload(cop.names))

\* spawn(args): the child runs, the proxies are connected, waitPromise is
\* pending
SpawnChild(kind, output) ==
    /\ MayCall("spawn")
    /\ ~cop.spawned
    /\ cop' = called(connectStdoutIfNeeded(connectStdinIfNeeded(
                  [cop EXCEPT !.spawned = TRUE, !.kind = kind, !.child = "running",
                              !.childStdin = "open", !.pending = output,
                              !.waitPromise = "pending"])))
    /\ UNCHANGED outsideCop

\* The tick after pipe(): the proxy flows into child.stdin
FlowStdin ==
    /\ cop.state = "new"
    /\ cop.stdinFlowTick
    /\ cop' = forwardStdin(cop)
    /\ UNCHANGED outsideCop

\* closeStdin(): the proxy is ended, child.stdin is ended at once, the
\* proxy is forgotten
CloseStdin ==
    /\ MayCall("closeStdin")
    /\ cop' = called([cop EXCEPT !.stdinClosed = TRUE,
                                 !.stdinProxy = IF @ = "none" THEN "none" ELSE "closed",
                                 !.childStdin = IF @ = "open" THEN "ended" ELSE @,
                                 !.sockInFin = @ \/ cop.childStdin = "open"])
    /\ UNCHANGED outsideCop

\* closeStdout(): child.stdout is unpiped, which pauses it, and the proxy is
\* destroyed and forgotten
CloseStdout ==
    /\ MayCall("closeStdout")
    /\ cop' = called([cop EXCEPT !.stdoutClosed = TRUE,
                                 !.stdoutFlowing = IF cop.stdoutPiped THEN FALSE ELSE @,
                                 !.stdoutPiped = FALSE,
                                 !.needDrain = FALSE,
                                 !.proxyOut = 0,
                                 !.stdoutProxy = IF @ = "none" THEN "none" ELSE "destroyed"])
    /\ UNCHANGED outsideCop

\* collectStream(stdout): 'data' and 'end' listeners on the proxy
CollectStream ==
    /\ MayCall("collectStream")
    /\ cop.stdoutProxy \in {"open", "ended"}
    /\ cop.collector = "none"
    /\ cop' = called([cop EXCEPT !.collector = "attached"])
    /\ UNCHANGED outsideCop

\* await collectStream(stdout) returns
AwaitCollect ==
    /\ cop.caller # "any"
    /\ MayCall("awaitCollect")
    /\ cop.collector = "resolved"
    /\ cop' = called(cop)
    /\ UNCHANGED outsideCop

\* await wait() returns
Wait ==
    /\ cop.caller # "any"
    /\ MayCall("wait")
    /\ cop.waitPromise = "resolved"
    /\ cop' = called(cop)
    /\ UNCHANGED outsideCop

\* terminate(signal) of a running child: the kill signal ends it
Terminate ==
    /\ cop.caller = "any"
    /\ MayCall("terminate")
    /\ cop.child = "running"
    /\ cop' = [cop EXCEPT !.child = "exited", !.terminated = TRUE]
    /\ UNCHANGED outsideCop

\* The child writes one chunk; it blocks while the pipe is full
ChildWrite ==
    /\ cop.child = "running"
    /\ cop.pending > 0
    /\ cop.kernelOut < PipeCapacity
    /\ cop' = [cop EXCEPT !.pending = @ - 1, !.produced = @ + 1, !.kernelOut = @ + 1]
    /\ UNCHANGED outsideCop

\* `git check-attr --stdin` reads one name and has one chunk to answer, or
\* reads end-of-input
ChildRead ==
    /\ cop.child = "running"
    /\ cop.kind = "check-attr"
    /\ cop.pending = 0
    /\ ~cop.childEof
    /\ \/ /\ cop.sockIn # <<>>
          /\ cop' = [cop EXCEPT !.received = Append(@, Head(cop.sockIn)),
                                !.sockIn = Tail(@), !.pending = 1]
       \/ /\ cop.sockIn = <<>>
          /\ cop.sockInFin
          /\ cop' = [cop EXCEPT !.childEof = TRUE]
    /\ UNCHANGED outsideCop

\* The child exits when its work is done
ChildExit ==
    /\ cop.child = "running"
    /\ cop.pending = 0
    /\ cop.kind = "ls-files" \/ cop.childEof
    /\ cop' = [cop EXCEPT !.child = "exited"]
    /\ UNCHANGED outsideCop

\* child.stdout reads the pipe while its buffer is under the high-water
\* mark: one chunk, or end-of-file once the child is gone; what it reads it
\* emits at once while it flows
StdoutRead ==
    /\ cop.spawned
    /\ ~cop.stdoutEof
    /\ cop.stdoutBuf < StdoutHwm
    /\ \/ /\ cop.kernelOut > 0
          /\ cop' = flowStdout([cop EXCEPT !.kernelOut = @ - 1, !.stdoutBuf = @ + 1])
       \/ /\ cop.kernelOut = 0
          /\ cop.child = "exited"
          /\ cop' = flowStdout([cop EXCEPT !.stdoutEof = TRUE])
    /\ UNCHANGED outsideCop

\* The proxy hands the collector a chunk without resuming the source
ProxyFlowNoDrain ==
    /\ cop.collector = "attached"
    /\ cop.stdoutProxy \in {"open", "ended"}
    /\ cop.proxyOut > 0
    /\ cop' = [cop EXCEPT !.proxyOut = @ - 1, !.collected = @ + 1]
    /\ UNCHANGED outsideCop

\* The proxy hands the collector a chunk; when it has drained, the pipe
\* resumes child.stdout
ProxyFlow ==
    /\ cop.collector = "attached"
    /\ cop.stdoutProxy \in {"open", "ended"}
    /\ cop.proxyOut > 0
    /\ cop' = flowStdout([cop EXCEPT !.proxyOut = @ - 1, !.collected = @ + 1,
                                     !.needDrain = @ /\ cop.proxyOut > 1,
                                     !.stdoutFlowing =
                                         @ \/ (cop.needDrain /\ cop.proxyOut = 1)])
    /\ UNCHANGED outsideCop

\* The proxy emits 'end' to the collector: collectStream resolves
ProxyEnd ==
    /\ cop.collector = "attached"
    /\ cop.stdoutProxy = "ended"
    /\ cop.proxyOut = 0
    /\ cop' = [cop EXCEPT !.collector = "resolved"]
    /\ UNCHANGED outsideCop

\* The child's 'exit': its stdin is destroyed and every readable stdio
\* stream is resumed once
ExitEvent ==
    /\ cop.child = "exited"
    /\ ~cop.exitSeen
    /\ cop' = flowStdout([cop EXCEPT !.exitSeen = TRUE,
                                     !.childStdin = "destroyed",
                                     !.stdoutFlowing = @ \/ ~cop.stdoutEnded])
    /\ UNCHANGED outsideCop

\* The child's 'close', after its exit and the close of its output stream:
\* the listener of spawn() ends the proxies and resolves waitPromise
Close ==
    /\ cop.exitSeen
    /\ cop.stdoutEnded
    /\ cop.waitPromise = "pending"
    /\ cop' = [cop EXCEPT !.waitPromise = "resolved",
                          !.stdoutProxy = IF @ = "open" THEN "ended" ELSE @]
    /\ UNCHANGED outsideCop

CopNext ==
    \/ StdinPipe
    \/ StdoutPipe
    \/ WriteBuffer
    \/ \E output \in OutputSizes :
          /\ cop.caller # "getFileAttributesBatch"
          /\ SpawnChild("ls-files", output)
    \/ /\ cop.caller # "getEncryptedFiles"
       /\ SpawnChild("check-attr", 0)
    \/ FlowStdin
    \/ CloseStdin
    \/ CloseStdout
    \/ CollectStream
    \/ AwaitCollect
    \/ Wait
    \/ Terminate
    \/ ChildWrite
    \/ ChildRead
    \/ ChildExit
    \/ StdoutRead
    \/ ProxyFlow
    \/ ProxyEnd
    \/ ExitEvent
    \/ Close

\* The next call of getEncryptedFiles or getFileAttributesBatch
CallerStep ==
    /\ cop.caller # "any"
    /\ \/ StdinPipe \/ StdoutPipe \/ WriteBuffer \/ CloseStdin \/ CloseStdout
       \/ CollectStream \/ AwaitCollect \/ Wait
       \/ \E output \in OutputSizes :
             cop.caller = "getEncryptedFiles" /\ SpawnChild("ls-files", output)
       \/ cop.caller = "getFileAttributesBatch" /\ SpawnChild("check-attr", 0)

\* Every step of the event loop, of the kernel and of the child that is
\* possible is taken, and the two callers go on with their next call; the
\* calls made in any order are not forced.
CopFair ==
    /\ WF_vars(CallerStep)
    /\ WF_vars(FlowStdin)
    /\ WF_vars(ChildWrite) /\ WF_vars(ChildRead) /\ WF_vars(ChildExit)
    /\ WF_vars(StdoutRead) /\ WF_vars(ProxyFlow) /\ WF_vars(ProxyEnd) /\ WF_vars(ExitEvent) /\ WF_vars(Close)

SpecCop == CopInit /\ [][CopNext]_vars /\ CopFair

\* C24: the octets written to stdinPipe() reach the child's standard input,
\* all of them and in order, before its end-of-input, whenever the proxy
\* was piped into child.stdin, closeStdin() right after spawn() included.
C24_StdinDeliveredBeforeEof ==
    cop.stdinPiped /\ cop.childEof => cop.received = cop.written

\* C25: once terminate() has sent the kill signal, wait() settles.
C25_WaitSettlesAfterTerminate ==
    cop.terminated ~> cop.waitPromise = "resolved"

\* What getEncryptedFiles and getFileAttributesBatch have when they go on
\* after wait(): the whole output of the child and its exit status
CallerHasOutputAndStatus ==
    /\ cop.collector = "resolved"
    /\ cop.waitPromise = "resolved"
    /\ ~cop.terminated
    /\ cop.pending = 0
    /\ cop.collected = cop.produced
    /\ cop.caller = "getFileAttributesBatch"
           => cop.received = payload(cop.names) /\ cop.produced = cop.names

\* C26: getEncryptedFiles and getFileAttributesBatch always come to hold the
\* child's complete output and its exit status, for an output larger than
\* the pipe and the stream buffers together and for every number of names;
\* collectStream never resolves with part of the output.
C26_CallersNeverDeadlock ==
    /\ (cop.caller \in {"getEncryptedFiles", "getFileAttributesBatch"})
           ~> (CallerHasOutputAndStatus /\ cop.script = <<>>)
    /\ [](cop.caller # "any" /\ cop.collector = "resolved"
              => cop.pending = 0 /\ cop.collected = cop.produced)

\* getEncryptedFiles done with the big output of `git ls-files` read, more
\* than pipe, child.stdout and proxy hold together
C26_Witness ==
    /\ cop.caller = "getEncryptedFiles"
    /\ cop.script = <<>>
    /\ cop.collected = BigOutput
    /\ cop.collected > PipeCapacity + StdoutHwm + ProxyHwm
    /\ cop.waitPromise = "resolved"
====
